---------------------------- MODULE Spec2Model ----------------------------
(***************************************************************************)
(* Model of the Suraksha Yatra AI service core (src/ai-service):           *)
(*   - RiskPredictor   (ml_models/risk_predictor.py)                       *)
(*   - AnomalyDetector (ml_models/anomaly_detector.py)                     *)
(*   - PatternAnalyzer (ml_models/pattern_analyzer.py)                     *)
(*                                                                         *)
(* Two specifications:                                                     *)
(*   Spec      the shared trained-model state: one training thread per     *)
(*             object and one predict_route_risk thread, interleaved at    *)
(*             the granularity of the reads and writes of self.model,      *)
(*             self.scaler and self.last_trained (Flask serves requests    *)
(*             on several threads, app.py:223).                            *)
(*   SpecCalls the scoring operations as sequential calls: each action     *)
(*             draws the inputs of one call and records its result.        *)
(*                                                                         *)
(* Numbers: scores and confidences are integers in thousandths (1000 is    *)
(* 1.0); speeds are km/h; distances are tenths of a kilometre.             *)
(***************************************************************************)
EXTENDS Integers, Sequences, FiniteSets, TLC

VARIABLES
    model,            \* RiskPredictor.model: None or a regressor object
    scaler,           \* RiskPredictor.scaler: the StandardScaler object
    last_trained,     \* RiskPredictor.last_trained
    movement_model,   \* AnomalyDetector.movement_model
    ad_scaler,        \* AnomalyDetector.scaler
    ad_last_trained,  \* AnomalyDetector.last_trained
    clock,            \* number of training calls started so far
    rt,               \* the thread running RiskPredictor.train_model
    at,               \* the thread running AnomalyDetector.train_models
    rd,               \* the thread running RiskPredictor.predict_route_risk
    call              \* SpecCalls: the last scoring call and its result

vars == <<model, scaler, last_trained, movement_model, ad_scaler,
          ad_last_trained, clock, rt, at, rd, call>>

\* Python's None (a record, so that it compares with the objects below).
None == [none |-> TRUE]

\* A datetime: the training run that took it.
Time(r) == [time |-> r]

\* ------------------------------------------------------------------------
\* Bounds of the model
\* ------------------------------------------------------------------------
MaxRuns == 3

\* Sizes of the incident sets get_historical_incidents may return.
IncidentCounts == {0, 49, 50, 99, 100, 120}

\* ------------------------------------------------------------------------
\* Shared trained-model state (Spec)
\* ------------------------------------------------------------------------

\* StandardScaler() as constructed in __init__: not fitted.
FreshScaler == [run |-> 0, fitted |-> FALSE]

\* A scaler fitted by training run r (fit_transform mutates the object).
FittedScaler(r) == [run |-> r, fitted |-> TRUE]

\* RandomForestRegressor(...) / IsolationForest(...) just constructed by run r.
UnfittedModel(r) == [run |-> r, fitted |-> FALSE]

\* The same object after .fit() returned.
FittedModel(r) == [run |-> r, fitted |-> TRUE]

IdleThread == [pc |-> "idle"]

\* train_model line 275: training is refused below 50 incidents.
RiskInsufficient_mut(n) == n < 40
RiskInsufficient(n) == n < 50

\* train_models line 501: training is refused below 100 incidents.
AnomInsufficient(n) == n < 100

\* train_models line 514: and below 50 extracted feature vectors.
AnomFeaturesInsufficient(f) == f < 50

\* __init__ + load_model: either no saved pair exists (model None, fresh
\* scaler) or the saved model/scaler pair of an earlier run (run 0) is loaded.
RiskInit ==
    /\ \/ model = None /\ scaler = FreshScaler
       \/ model = FittedModel(0) /\ scaler = FittedScaler(0)
    /\ last_trained = None

\* AnomalyDetector.__init__ + load_models.
AnomInit ==
    /\ \/ movement_model = None /\ ad_scaler = FreshScaler
       \/ movement_model = FittedModel(0) /\ ad_scaler = FittedScaler(0)
    /\ ad_last_trained = None

NoCall == [op |-> "none"]

Init ==
    /\ RiskInit
    /\ AnomInit
    /\ clock = 0
    /\ rt = IdleThread
    /\ at = IdleThread
    /\ rd = IdleThread
    /\ call = NoCall

riskFields == <<model, scaler, last_trained>>
anomFields == <<movement_model, ad_scaler, ad_last_trained>>

\* ---- RiskPredictor.train_model ------------------------------------------

\* lines 269-273: the call starts and fetches the incidents of 90 days.
TrainStart ==
    /\ rt.pc = "idle"
    /\ clock < MaxRuns
    /\ \E n \in IncidentCounts :
          rt' = [pc |-> "fetched", n |-> n, run |-> clock + 1,
                 before |-> riskFields, ret |-> "pending"]
    /\ clock' = clock + 1
    /\ UNCHANGED <<model, scaler, last_trained, anomFields, at, rd, call>>

\* lines 275-277: too few incidents, return False.
TrainRefuse ==
    /\ rt.pc = "fetched"
    /\ RiskInsufficient(rt.n)
    /\ rt' = [rt EXCEPT !.pc = "returned", !.ret = "False"]
    /\ UNCHANGED <<model, scaler, last_trained, anomFields, clock, at, rd, call>>

\* lines 280-287: _prepare_training_data keeps x of the n incidents (those
\* with coordinates). x = 0 returns False (line 282); x = 1 makes
\* train_test_split raise (empty train set), caught at line 310.
TrainPrepare ==
    /\ rt.pc = "fetched"
    /\ ~RiskInsufficient(rt.n)
    /\ \E x \in {0, 1, rt.n} :
          rt' = IF x <= 1
                THEN [rt EXCEPT !.pc = "returned", !.ret = "False"]
                ELSE [rt EXCEPT !.pc = "split"]
    /\ UNCHANGED <<model, scaler, last_trained, anomFields, clock, at, rd, call>>

\* line 290: self.scaler.fit_transform(X_train) refits the shared scaler
\* object in place.
TrainFitScaler ==
    /\ rt.pc = "split"
    /\ scaler' = FittedScaler(rt.run)
    /\ rt' = [rt EXCEPT !.pc = "scaled"]
    /\ UNCHANGED <<model, last_trained, anomFields, clock, at, rd, call>>

\* line 294: self.model = RandomForestRegressor(...), not fitted yet.
TrainAssignModel ==
    /\ rt.pc = "scaled"
    /\ model' = UnfittedModel(rt.run)
    /\ rt' = [rt EXCEPT !.pc = "assigned"]
    /\ UNCHANGED <<scaler, last_trained, anomFields, clock, at, rd, call>>

\* line 295: self.model.fit(...) completes.
TrainFitModel ==
    /\ rt.pc = "assigned"
    /\ model' = FittedModel(rt.run)
    /\ rt' = [rt EXCEPT !.pc = "fitted"]
    /\ UNCHANGED <<scaler, last_trained, anomFields, clock, at, rd, call>>

\* lines 295-300, 310-312: fit or the evaluation raises; the handler logs
\* and returns False.
TrainRaises ==
    /\ rt.pc = "assigned"
    /\ rt' = [rt EXCEPT !.pc = "returned", !.ret = "False"]
    /\ UNCHANGED <<model, scaler, last_trained, anomFields, clock, at, rd, call>>

\* lines 305-308: save_model (swallows its own errors), last_trained, True.
TrainFinish ==
    /\ rt.pc = "fitted"
    /\ last_trained' = Time(rt.run)
    /\ rt' = [rt EXCEPT !.pc = "returned", !.ret = "True"]
    /\ UNCHANGED <<model, scaler, anomFields, clock, at, rd, call>>

\* the call returns to retrain()'s caller.
TrainReturn ==
    /\ rt.pc = "returned"
    /\ rt' = IdleThread
    /\ UNCHANGED <<model, scaler, last_trained, anomFields, clock, at, rd, call>>

\* ---- AnomalyDetector.train_models ---------------------------------------

\* lines 495-499
AnomTrainStart ==
    /\ at.pc = "idle"
    /\ clock < MaxRuns
    /\ \E n \in IncidentCounts :
          at' = [pc |-> "fetched", n |-> n, run |-> clock + 1,
                 before |-> anomFields, ret |-> "pending"]
    /\ clock' = clock + 1
    /\ UNCHANGED <<riskFields, anomFields, rt, rd, call>>

\* lines 501-503
AnomTrainRefuse ==
    /\ at.pc = "fetched"
    /\ AnomInsufficient(at.n)
    /\ at' = [at EXCEPT !.pc = "returned", !.ret = "False"]
    /\ UNCHANGED <<riskFields, anomFields, clock, rt, rd, call>>

\* lines 506-516: f of the n incidents yield a feature vector.
AnomTrainFeatures ==
    /\ at.pc = "fetched"
    /\ ~AnomInsufficient(at.n)
    /\ \E f \in {0, 49, 50, at.n} :
          at' = IF AnomFeaturesInsufficient(f)
                THEN [at EXCEPT !.pc = "returned", !.ret = "False"]
                ELSE [at EXCEPT !.pc = "features"]
    /\ UNCHANGED <<riskFields, anomFields, clock, rt, rd, call>>

\* line 519: self.scaler.fit_transform(X)
AnomTrainFitScaler ==
    /\ at.pc = "features"
    /\ ad_scaler' = FittedScaler(at.run)
    /\ at' = [at EXCEPT !.pc = "scaled"]
    /\ UNCHANGED <<riskFields, movement_model, ad_last_trained, clock, rt, rd, call>>

\* line 522: self.movement_model = IsolationForest(...)
AnomTrainAssignModel ==
    /\ at.pc = "scaled"
    /\ movement_model' = UnfittedModel(at.run)
    /\ at' = [at EXCEPT !.pc = "assigned"]
    /\ UNCHANGED <<riskFields, ad_scaler, ad_last_trained, clock, rt, rd, call>>

\* line 523: self.movement_model.fit(X_scaled)
AnomTrainFitModel ==
    /\ at.pc = "assigned"
    /\ movement_model' = FittedModel(at.run)
    /\ at' = [at EXCEPT !.pc = "fitted"]
    /\ UNCHANGED <<riskFields, ad_scaler, ad_last_trained, clock, rt, rd, call>>

\* lines 523, 533-535: fit raises; the handler returns False.
AnomTrainRaises ==
    /\ at.pc = "assigned"
    /\ at' = [at EXCEPT !.pc = "returned", !.ret = "False"]
    /\ UNCHANGED <<riskFields, anomFields, clock, rt, rd, call>>

\* lines 528-531
AnomTrainFinish ==
    /\ at.pc = "fitted"
    /\ ad_last_trained' = Time(at.run)
    /\ at' = [at EXCEPT !.pc = "returned", !.ret = "True"]
    /\ UNCHANGED <<riskFields, movement_model, ad_scaler, clock, rt, rd, call>>

AnomTrainReturn ==
    /\ at.pc = "returned"
    /\ at' = IdleThread
    /\ UNCHANGED <<riskFields, anomFields, clock, rt, rd, call>>

\* ---- RiskPredictor.predict_route_risk, as a concurrent reader -----------

\* line 102: reads self.model; None takes the heuristic (line 104).
PredictStart ==
    /\ rd.pc = "idle"
    /\ rd' = IF model = None
             THEN [pc |-> "done", path |-> "default"]
             ELSE [pc |-> "features"]
    /\ UNCHANGED <<riskFields, anomFields, clock, rt, at, call>>

\* lines 106-110: prepare_features, then self.scaler.transform reads the
\* scaler; an unfitted scaler raises, and line 130 answers the heuristic.
PredictScale ==
    /\ rd.pc = "features"
    /\ rd' = IF scaler.fitted
             THEN [pc |-> "scaled", scaler |-> scaler.run]
             ELSE [pc |-> "done", path |-> "default"]
    /\ UNCHANGED <<riskFields, anomFields, clock, rt, at, call>>

\* line 113: self.model.predict reads self.model again; an unfitted
\* regressor raises NotFittedError, and line 130 answers the heuristic.
PredictModel ==
    /\ rd.pc = "scaled"
    /\ rd' = IF model.fitted
             THEN [pc |-> "done", path |-> "trained",
                   scaler |-> rd.scaler, model |-> model.run]
             ELSE [pc |-> "done", path |-> "default"]
    /\ UNCHANGED <<riskFields, anomFields, clock, rt, at, call>>

\* lines 126/130: the call returns.
PredictReturn ==
    /\ rd.pc = "done"
    /\ rd' = IdleThread
    /\ UNCHANGED <<riskFields, anomFields, clock, rt, at, call>>

Next ==
    \/ TrainStart \/ TrainRefuse \/ TrainPrepare \/ TrainFitScaler
    \/ TrainAssignModel \/ TrainFitModel \/ TrainRaises \/ TrainFinish
    \/ TrainReturn
    \/ AnomTrainStart \/ AnomTrainRefuse \/ AnomTrainFeatures
    \/ AnomTrainFitScaler \/ AnomTrainAssignModel \/ AnomTrainFitModel
    \/ AnomTrainRaises \/ AnomTrainFinish \/ AnomTrainReturn
    \/ PredictStart \/ PredictScale \/ PredictModel \/ PredictReturn

Spec == Init /\ [][Next]_vars

\* ------------------------------------------------------------------------
\* Claims about the shared trained-model state
\* ------------------------------------------------------------------------

\* C1: every prediction made while a retrain runs uses a scaler and a
\* regressor of the same training run, never the newly fitted scaler with
\* the old regressor or the reverse.
C1_ScalerAndModelFromSameRun ==
    (rd.pc = "done" /\ rd.path = "trained") => rd.scaler = rd.model

\* C2: the object visible in self.model is at every instant either None or
\* a completely fitted regressor.
C2_ModelNoneOrFitted ==
    model = None \/ model.fitted

\* C3: a training call with fewer samples than the minimum (50 incidents
\* for RiskPredictor.train_model, 100 for AnomalyDetector.train_models)
\* returns False and leaves model, scaler and last_trained as they were
\* before the call.
C3_RefusedTrainingKeepsState ==
    /\ (rt.pc = "returned" /\ rt.n < 50) =>
          (rt.ret = "False" /\ riskFields = rt.before)
    /\ (at.pc = "returned" /\ at.n < 100) =>
          (at.ret = "False" /\ anomFields = at.before)

\* Both trainers have just been refused, each with a trained prior state.
C3_Witness ==
    /\ rt.pc = "returned" /\ rt.n < 50 /\ rt.n > 0 /\ model # None
    /\ last_trained # None
    /\ at.pc = "returned" /\ at.n < 100 /\ at.n >= 50 /\ movement_model # None

\* ------------------------------------------------------------------------
\* Arithmetic helpers (integer fixed point)
\* ------------------------------------------------------------------------
Min(a, b) == IF a <= b THEN a ELSE b
Max(a, b) == IF a >= b THEN a ELSE b
Abs(a) == IF a < 0 THEN -a ELSE a

RECURSIVE SqrtIter(_, _)
SqrtIter(n, x) ==
    LET y == (x + n \div x) \div 2
    IN  IF y >= x THEN x ELSE SqrtIter(n, y)

\* floor of the square root (np.sqrt / np.std on the integer scale)
ISqrt(n) == IF n < 2 THEN n ELSE SqrtIter(n, n)

\* A value or a raised exception.
Ok(v) == [ok |-> TRUE, v |-> v]
Raised == [ok |-> FALSE]

\* ------------------------------------------------------------------------
\* Coordinates and geodesic distance
\* ------------------------------------------------------------------------
\* A point is <<lat, lng>> in thousandths of a degree.  geopy refuses a
\* latitude outside [-90, 90] with ValueError.
ValidPoint(p) == p[1] >= -90000 /\ p[1] <= 90000

\* geodesic(p, q).kilometers in tenths of a kilometre (111.32 km per
\* degree), or the exception geopy raises for an invalid point.
geodesic(p, q) ==
    IF ValidPoint(p) /\ ValidPoint(q)
    THEN Ok((ISqrt((p[1] - q[1]) * (p[1] - q[1]) + (p[2] - q[2]) * (p[2] - q[2]))
             * 11132) \div 10000)
    ELSE Raised

\* ------------------------------------------------------------------------
\* RiskPredictor: scoring operations
\* ------------------------------------------------------------------------

\* _get_time_risk_multiplier, in tenths (13 is 1.3)
get_time_risk_multiplier(hour) ==
    IF hour >= 22 \/ hour <= 5 THEN 13
    ELSE IF (hour >= 6 /\ hour <= 8) \/ (hour >= 17 /\ hour <= 19) THEN 11
    ELSE 10

\* _calculate_default_risk at the given current hour
calculate_default_risk_mut(start_coords, end_coords, hour) ==
    LET distance == geodesic(start_coords, end_coords)
    IN  IF ~distance.ok THEN Raised
        ELSE LET distance_risk == Min(distance.v, 300)
                 time_risk == get_time_risk_multiplier(hour) * 30
                 base_risk == 200
             IN  Ok(Min(distance_risk + time_risk + base_risk, 1000))
calculate_default_risk(start_coords, end_coords, hour) ==
    LET distance == geodesic(start_coords, end_coords)
    IN  IF ~distance.ok THEN Raised
        ELSE LET distance_risk == Min(distance.v, 300)
                 time_risk == get_time_risk_multiplier(hour) * 30
                 base_risk == 400
             IN  Ok(Min(distance_risk + time_risk + base_risk, 1000))

\* DatabaseClient.store_prediction: write_fails says whether insert_one
\* raises; the method catches every exception and returns None.
store_prediction_mut(write_fails) == IF write_fails THEN Raised ELSE Ok(None)
store_prediction(write_fails) == Ok(None)

\* predict_route_risk as one sequential call.  m is self.model; pred is
\* what self.model.predict returns (the regressor is opaque); raises says
\* whether scaling or predicting raises; write_fails whether the audit
\* write fails.  The handler of line 128 calls _calculate_default_risk
\* again, outside any try.
predict_route_risk(m, start_coords, end_coords, hour, pred, raises, write_fails) ==
    IF m = None
    THEN calculate_default_risk(start_coords, end_coords, hour)
    ELSE IF raises
         THEN calculate_default_risk(start_coords, end_coords, hour)
         ELSE LET risk_score == Max(0, Min(1000, pred))
              IN  IF store_prediction(write_fails).ok THEN Ok(risk_score)
                  ELSE calculate_default_risk(start_coords, end_coords, hour)

\* get_risk_level
get_risk_level(risk_score) ==
    IF risk_score >= 800 THEN "critical"
    ELSE IF risk_score >= 600 THEN "high"
    ELSE IF risk_score >= 400 THEN "medium"
    ELSE "low"

\* get_recommendations
get_recommendations_mut(risk_score) ==
    IF risk_score > 800 THEN
        << "Consider postponing travel if possible",
           "Share your location with emergency contacts",
           "Use main roads and avoid isolated areas",
           "Travel in groups if possible",
           "Keep emergency numbers ready" >>
    ELSE IF risk_score >= 600 THEN
        << "Stay alert and aware of surroundings",
           "Share your location with contacts",
           "Avoid isolated areas",
           "Keep phone charged and accessible" >>
    ELSE IF risk_score >= 400 THEN
        << "Exercise normal caution",
           "Keep emergency contacts updated",
           "Stay on well-lit paths" >>
    ELSE
        << "Safe travel conditions",
           "Maintain basic safety awareness" >>
get_recommendations(risk_score) ==
    IF risk_score >= 800 THEN
        << "Consider postponing travel if possible",
           "Share your location with emergency contacts",
           "Use main roads and avoid isolated areas",
           "Travel in groups if possible",
           "Keep emergency numbers ready" >>
    ELSE IF risk_score >= 600 THEN
        << "Stay alert and aware of surroundings",
           "Share your location with contacts",
           "Avoid isolated areas",
           "Keep phone charged and accessible" >>
    ELSE IF risk_score >= 400 THEN
        << "Exercise normal caution",
           "Keep emergency contacts updated",
           "Stay on well-lit paths" >>
    ELSE
        << "Safe travel conditions",
           "Maintain basic safety awareness" >>

Severities == {"critical", "high", "medium", "low"}

\* severity_weights.get(severity, 0.5), in tenths
severity_weight(severity) ==
    CASE severity = "critical" -> 10
      [] severity = "high" -> 8
      [] severity = "medium" -> 5
      [] severity = "low" -> 2
      [] OTHER -> 5

RECURSIVE SumOver(_, _)
\* the sum of f[x] over the finite set S
SumOver(S, f) ==
    IF S = {} THEN 0
    ELSE LET x == CHOOSE y \in S : TRUE
         IN  f[x] + SumOver(S \ {x}, f)

\* predict_area_risk lines 142-159: severity_dist maps a severity to its
\* count, radius is in metres (a multiple of 100), hour is the current hour.
\* A zero radius divides by zero; the handler answers 0.5.
area_risk_score(severity_dist, radius, hour) ==
    LET weighted_incidents ==
            SumOver(DOMAIN severity_dist,
                    [s \in DOMAIN severity_dist |->
                        severity_weight(s) * severity_dist[s]])
        r == radius \div 100
        \* area_km2 * 30 * 0.1, in units of 10^-4
        denom == (r * r * 942477) \div 1000
    IN  IF denom = 0 THEN 500
        ELSE LET base_risk == Min((weighted_incidents * 1000000) \div denom, 1000)
                 time_multiplier == get_time_risk_multiplier(hour)
             IN  Min((base_risk * time_multiplier) \div 10, 1000)

predict_area_risk(severity_dist, radius, hour) ==
    LET final_risk == area_risk_score(severity_dist, radius, hour)
    IN  [risk_score |-> final_risk,
         risk_level |-> IF radius \div 100 = 0 THEN "medium"
                        ELSE get_risk_level(final_risk)]

\* DatabaseClient.get_area_incident_stats.  stored is the incidents
\* collection, a sequence of [lat, lng, severity, age] with age in days
\* since createdAt; radius is in metres.  The $near query keeps every
\* document within $maxDistance of the point, whatever its age; a point
\* the server refuses makes find raise, and the handler reports no
\* incidents.  Distances are planar, in metres, and the radii asked for
\* stay below 40 km.
near(incident, latitude, longitude, radius) ==
    LET d2 == (incident.lat - latitude) * (incident.lat - latitude)
              + (incident.lng - longitude) * (incident.lng - longitude)
    IN  /\ d2 <= 200000
        /\ (ISqrt(d2 * 10000) * 11132) \div 10000 <= radius

get_area_incident_stats(stored, latitude, longitude, radius) ==
    LET incidents == IF ValidPoint(<<latitude, longitude>>)
                     THEN SelectSeq(stored,
                              LAMBDA incident :
                                  near(incident, latitude, longitude, radius))
                     ELSE << >>
        present == {incidents[i].severity : i \in 1..Len(incidents)}
    IN  [total_incidents |-> Len(incidents),
         severity_distribution |->
             [s \in present |->
                 Cardinality({i \in 1..Len(incidents) : incidents[i].severity = s})]]

\* predict_area_risk with the statistics fetched at line 135
predict_area_risk_at(stored, latitude, longitude, radius, hour) ==
    predict_area_risk(
        get_area_incident_stats(stored, latitude, longitude, radius).severity_distribution,
        radius, hour)

\* prepare_features lines 52-58 and 62: the historical_incidents_count
\* feature, in tenths.  The midpoint halves the sum of the end points; a
\* route geodesic refuses makes the handler of line 94 answer 0.5 for
\* every feature.
historical_incidents_count(stored, start_coords, end_coords) ==
    LET mid_lat == (start_coords[1] + end_coords[1]) \div 2
        mid_lng == (start_coords[2] + end_coords[2]) \div 2
        area_stats == get_area_incident_stats(stored, mid_lat, mid_lng, 2000)
    IN  IF geodesic(start_coords, end_coords).ok
        THEN 10 * area_stats.total_incidents
        ELSE 5

\* ------------------------------------------------------------------------
\* AnomalyDetector: speed anomaly
\* ------------------------------------------------------------------------
\* Speeds given to the detector (current_speed, loc['speed']) are integers
\* in units of 5/18 m/s; speeds in km/h are kept in half km/h, so that
\* "speed * 3.6" is a doubling.  NoSpeed is a sample without a speed.
NoSpeed == -1

\* current_speed * 3.6 if current_speed else 0 (half km/h)
to_kmh(speed) == IF speed = NoSpeed \/ speed = 0 THEN 0 ELSE 2 * speed

RECURSIVE SumSeq(_)
SumSeq(q) == IF q = <<>> THEN 0 ELSE Head(q) + SumSeq(Tail(q))

RECURSIVE SumSq(_)
SumSq(q) == IF q = <<>> THEN 0 ELSE Head(q) * Head(q) + SumSq(Tail(q))

RECURSIVE Insert(_, _)
Insert(x, q) ==
    IF q = <<>> THEN <<x>>
    ELSE IF x <= Head(q) THEN <<x>> \o q
    ELSE <<Head(q)>> \o Insert(x, Tail(q))

RECURSIVE sorted(_)
\* the sequence in non-decreasing order
sorted(q) == IF q = <<>> THEN <<>> ELSE Insert(Head(q), sorted(Tail(q)))

\* np.percentile(values, p) with linear interpolation, times 100
percentile100(values, p) ==
    LET x == sorted(values)
        pos == (Len(x) - 1) * p
        k == pos \div 100
        f == pos % 100
    IN  IF f = 0 THEN 100 * x[k + 1]
        ELSE 100 * x[k + 1] + f * (x[k + 2] - x[k + 1])

\* _detect_general_speed_anomaly; expected_movement is
\* context and context.get('expected_movement', False)
detect_general_speed_anomaly_mut(current_speed, expected_movement) ==
    LET current_speed_kmh == to_kmh(current_speed)
    IN  IF current_speed_kmh > 240
        THEN [is_anomaly |-> TRUE, confidence |-> 700,
              reason |-> "Very high speed"]
        ELSE IF current_speed_kmh > 400
        THEN [is_anomaly |-> TRUE, confidence |-> 900,
              reason |-> "Extremely high speed"]
        ELSE IF current_speed_kmh < 2 /\ expected_movement
        THEN [is_anomaly |-> TRUE, confidence |-> 600,
              reason |-> "Unexpected stationary state"]
        ELSE [is_anomaly |-> FALSE, confidence |-> 0,
              reason |-> "Speed within general limits"]
detect_general_speed_anomaly(current_speed, expected_movement) ==
    LET current_speed_kmh == to_kmh(current_speed)
        max_vehicle_speed == 400
    IN  IF current_speed_kmh > max_vehicle_speed
        THEN [is_anomaly |-> TRUE, confidence |-> 900,
              reason |-> "Extremely high speed"]
        ELSE IF current_speed_kmh > 240
        THEN [is_anomaly |-> TRUE, confidence |-> 700,
              reason |-> "Very high speed"]
        ELSE IF current_speed_kmh < 2 /\ expected_movement
        THEN [is_anomaly |-> TRUE, confidence |-> 600,
              reason |-> "Unexpected stationary state"]
        ELSE [is_anomaly |-> FALSE, confidence |-> 0,
              reason |-> "Speed within general limits"]

\* the speeds of the samples that carry one, in km/h (lines 107-111)
historical_speeds_of(historical_locations) ==
    LET withSpeed == SelectSeq(historical_locations, LAMBDA v : v # NoSpeed)
    IN  [i \in 1..Len(withSpeed) |-> 2 * withSpeed[i]]

\* detect_speed_anomaly lines 117-158, on 20 or more historical speeds
detect_personal_speed_anomaly_mut(historical_speeds, current_speed) ==
    LET n == Len(historical_speeds)
        total == SumSeq(historical_speeds)
        \* n^2 times the variance
        spread == n * SumSq(historical_speeds) - total * total
        percentile_95 == percentile100(historical_speeds, 95)
        percentile_05 == percentile100(historical_speeds, 5)
        current_speed_kmh == to_kmh(current_speed)
        dev == Abs(n * current_speed_kmh - total)
        \* z_score in thousandths (0 when std_speed is 0)
        z_score == IF spread > 0 THEN (1000 * dev) \div ISqrt(spread) ELSE 0
        is_high_speed == 200 * current_speed_kmh > 3 * percentile_95
        is_very_low_speed == 200 * current_speed_kmh < percentile_05
        is_statistical_anomaly == spread > 0 /\ dev * dev > 9 * spread
        is_anomaly == is_high_speed \/ is_very_low_speed \/ is_statistical_anomaly
        confidence == IF is_statistical_anomaly THEN Min(z_score \div 3, 1000)
                      ELSE IF is_high_speed \/ is_very_low_speed THEN 800
                      ELSE 0
        reason == IF is_high_speed THEN "Speed significantly higher than usual"
                  ELSE IF is_very_low_speed THEN "Speed unusually low"
                  ELSE IF is_statistical_anomaly THEN "Speed statistically anomalous"
                  ELSE "Speed within normal range"
    IN  [is_anomaly |-> is_anomaly, confidence |-> confidence, reason |-> reason]

detect_personal_speed_anomaly(historical_speeds, current_speed) ==
    LET n == Len(historical_speeds)
        total == SumSeq(historical_speeds)
        \* n^2 times the variance
        spread == n * SumSq(historical_speeds) - total * total
        percentile_95 == percentile100(historical_speeds, 95)
        percentile_05 == percentile100(historical_speeds, 5)
        current_speed_kmh == to_kmh(current_speed)
        dev == Abs(n * current_speed_kmh - total)
        \* z_score in thousandths (0 when std_speed is 0)
        z_score == IF spread > 0 THEN (1000 * dev) \div ISqrt(spread) ELSE 0
        is_high_speed == 200 * current_speed_kmh > 3 * percentile_95
        is_very_low_speed == /\ 200 * current_speed_kmh < percentile_05
                             /\ current_speed_kmh > 2
        is_statistical_anomaly == spread > 0 /\ dev * dev > 9 * spread
        is_anomaly == is_high_speed \/ is_very_low_speed \/ is_statistical_anomaly
        confidence == IF is_statistical_anomaly THEN Min(z_score \div 3, 1000)
                      ELSE IF is_high_speed \/ is_very_low_speed THEN 800
                      ELSE 0
        reason == IF is_high_speed THEN "Speed significantly higher than usual"
                  ELSE IF is_very_low_speed THEN "Speed unusually low"
                  ELSE IF is_statistical_anomaly THEN "Speed statistically anomalous"
                  ELSE "Speed within normal range"
    IN  [is_anomaly |-> is_anomaly, confidence |-> confidence, reason |-> reason]

\* detect_speed_anomaly: historical_locations is the sequence of the speeds
\* (or NoSpeed) of the subject's samples of the last 15 days.
detect_speed_anomaly(historical_locations, current_speed, expected_movement) ==
    LET historical_speeds == historical_speeds_of(historical_locations)
    IN  IF Len(historical_speeds) < 20
        THEN detect_general_speed_anomaly(current_speed, expected_movement)
        ELSE detect_personal_speed_anomaly(historical_speeds, current_speed)

\* ------------------------------------------------------------------------
\* AnomalyDetector: movement features and movement anomaly
\* ------------------------------------------------------------------------
\* A location sample is [lat, lng, createdAt]: thousandths of a degree and
\* seconds.  NoTime is a sample without createdAt, which the code replaces
\* by datetime.utcnow().
NoTime == -1

coords(loc) == <<loc.lat, loc.lng>>

\* loc.get('createdAt', datetime.utcnow())
time_of(loc, now) == IF loc.createdAt = NoTime THEN now ELSE loc.createdAt

\* _calculate_bearing in degrees, for the displacements the model uses
\* (along a meridian or a parallel; arctan2(0, 0) is 0).
calculate_bearing(point1, point2) ==
    IF point2[2] = point1[2]
    THEN IF point2[1] >= point1[1] THEN 0 ELSE 180
    ELSE IF point2[2] > point1[2] THEN 90 ELSE 270

RECURSIVE count_changes(_, _)
\* the loop of _count_direction_changes from index i on
count_changes(locations, i) ==
    IF i > Len(locations) THEN 0
    ELSE LET bearing1 == calculate_bearing(coords(locations[i - 2]),
                                            coords(locations[i - 1]))
             bearing2 == calculate_bearing(coords(locations[i - 1]),
                                            coords(locations[i]))
             diff == Abs(bearing2 - bearing1)
             angle_diff == IF diff > 180 THEN 360 - diff ELSE diff
         IN  (IF angle_diff > 45 THEN 1 ELSE 0) + count_changes(locations, i + 1)

\* _count_direction_changes
count_direction_changes(locations) ==
    IF Len(locations) < 3 THEN 0 ELSE count_changes(locations, 3)

MaxSeq(q) == CHOOSE m \in {q[i] : i \in 1..Len(q)} :
                \A i \in 1..Len(q) : q[i] <= m

MeanSeq(q) == SumSeq(q) \div Len(q)

\* np.var: the population variance
VarSeq(q) == (Len(q) * SumSq(q) - SumSeq(q) * SumSeq(q)) \div (Len(q) * Len(q))

\* the keys of the feature map, in the order features.update inserts them
FeatureOrder == <<"avg_speed", "max_speed", "speed_variance", "total_distance",
                  "avg_time_interval", "max_time_gap", "num_stops",
                  "direction_changes">>

\* the empty feature map {}
NoFeatures == [f \in {} |-> 0]

\* _extract_movement_features.  Units: speeds in dm/s, speed_variance in
\* (m/s)^2, total_distance in tenths of a km, times in seconds.  Raised when
\* geodesic refuses a coordinate.
extract_movement_features(locations, now) ==
    IF Len(locations) < 2 THEN Ok(NoFeatures)
    ELSE
    LET pairs == 1..(Len(locations) - 1)
        dist == [i \in pairs |-> geodesic(coords(locations[i]),
                                          coords(locations[i + 1]))]
    IN  IF \E i \in pairs : ~dist[i].ok THEN Raised
        ELSE
        LET distances == [i \in pairs |-> dist[i].v]
            time_intervals == [i \in pairs |->
                time_of(locations[i + 1], now) - time_of(locations[i], now)]
            moving == SelectSeq([i \in pairs |-> i],
                                LAMBDA i : time_intervals[i] > 0)
            speeds == [k \in 1..Len(moving) |->
                (distances[moving[k]] * 1000) \div time_intervals[moving[k]]]
        IN  Ok([avg_speed |-> IF speeds # <<>> THEN MeanSeq(speeds) ELSE 0,
                max_speed |-> IF speeds # <<>> THEN MaxSeq(speeds) ELSE 0,
                speed_variance |-> IF speeds # <<>> THEN VarSeq(speeds) \div 100
                                   ELSE 0,
                total_distance |-> SumSeq(distances),
                avg_time_interval |-> MeanSeq(time_intervals),
                max_time_gap |-> MaxSeq(time_intervals),
                num_stops |-> Cardinality({k \in 1..Len(speeds) : speeds[k] < 1}),
                direction_changes |-> count_direction_changes(locations)])

RECURSIVE SetToSortedSeq(_)
\* the elements of a finite set of integers, in increasing order
SetToSortedSeq(S) ==
    IF S = {} THEN <<>>
    ELSE LET m == CHOOSE x \in S : \A y \in S : x <= y
         IN  <<m>> \o SetToSortedSeq(S \ {m})

\* historical_patterns[i:i+len(locations)] for i in range(0, h-n+1, n)
\* (lines 55-59): the start indexes (0-based) of the windows
window_starts(h, n) ==
    IF n = 0 THEN {} ELSE {i \in 0..h : i % n = 0 /\ i + n <= h}

SubSeqFrom(q, start, n) == [k \in 1..n |-> q[start + k]]

\* z-score of a feature in thousandths, or -1 when the feature is skipped
\* (fewer than two historical values, or a zero standard deviation)
feature_z(current, historical_values) ==
    LET n == Len(historical_values)
        total == SumSeq(historical_values)
        spread == n * SumSq(historical_values) - total * total
    IN  IF n > 1 /\ spread > 0
        THEN (100000 * Abs(n * current - total)) \div ISqrt(10000 * spread)
        ELSE -1

\* the z-scores _calculate_movement_anomaly_score and
\* _determine_movement_anomaly_reason compute, by feature name
feature_z_scores(current_features, historical_features) ==
    [f \in (DOMAIN current_features) \cap (DOMAIN historical_features[1]) |->
        feature_z(current_features[f],
                  LET have == SelectSeq(historical_features,
                                        LAMBDA hf : f \in DOMAIN hf)
                  IN  [k \in 1..Len(have) |-> have[k][f]])]

\* _calculate_movement_anomaly_score, in thousandths
calculate_movement_anomaly_score(current_features, historical_features) ==
    IF historical_features = <<>> THEN 0
    ELSE LET z == feature_z_scores(current_features, historical_features)
             scored == {f \in DOMAIN z : z[f] >= 0}
         IN  IF scored = {} THEN 0
             ELSE LET max_z_score == CHOOSE m \in {z[f] : f \in scored} :
                                        \A f \in scored : z[f] <= m
                  IN  Min(max_z_score \div 3, 1000)

\* _determine_movement_anomaly_reason (the label of a feature with the
\* largest positive z-score)
determine_movement_anomaly_reason(current_features, historical_features) ==
    IF historical_features = <<>> THEN "No historical patterns for comparison"
    ELSE LET z == feature_z_scores(current_features, historical_features)
             scored == {f \in DOMAIN z : z[f] > 0}
         IN  IF scored = {} THEN "Movement pattern within normal range"
             ELSE LET best == {f \in scored : \A g \in scored : z[g] <= z[f]}
                      first == CHOOSE i \in 1..Len(FeatureOrder) :
                                  /\ FeatureOrder[i] \in best
                                  /\ \A j \in 1..(i - 1) : FeatureOrder[j] \notin best
                      anomalous_feature == FeatureOrder[first]
                  IN  CASE anomalous_feature = "avg_speed" -> "unusual average speed"
                        [] anomalous_feature = "max_speed" -> "unusual maximum speed"
                        [] anomalous_feature = "speed_variance" -> "unusual speed variation"
                        [] anomalous_feature = "total_distance" -> "unusual travel distance"
                        [] anomalous_feature = "direction_changes" -> "unusual movement pattern"
                        [] anomalous_feature = "num_stops" -> "unusual number of stops"
                        [] OTHER -> "unusual feature"

\* The result every detector handler returns from its except clause.
DetectionError ==
    [is_anomaly |-> FALSE, confidence |-> 0, reason |-> "Detection error"]

\* line 36: fewer than 3 samples in the request's window
too_few_locations_mut(locations) == Len(locations) < 2
too_few_locations(locations) == Len(locations) < 3

\* detect_movement_anomaly: locations is the request's window,
\* historical_patterns what get_user_movement_patterns returns (30 days).
detect_movement_anomaly(locations, historical_patterns, now, write_fails) ==
    IF too_few_locations(locations)
    THEN [is_anomaly |-> FALSE, confidence |-> 0,
          reason |-> "Insufficient location data"]
    ELSE IF Len(historical_patterns) < 10
    THEN [is_anomaly |-> FALSE, confidence |-> 0,
          reason |-> "Insufficient historical data"]
    ELSE
    LET n == Len(locations)
        current == extract_movement_features(locations, now)
        starts == SetToSortedSeq(window_starts(Len(historical_patterns), n))
        windows == [k \in 1..Len(starts) |->
            extract_movement_features(
                SubSeqFrom(historical_patterns, starts[k], n), now)]
    IN  IF ~current.ok \/ \E k \in 1..Len(windows) : ~windows[k].ok
        THEN DetectionError
        ELSE
        LET current_features == current.v
            historical_features == [k \in 1..Len(windows) |-> windows[k].v]
        IN  IF Len(historical_features) < 5
            THEN [is_anomaly |-> FALSE, confidence |-> 0,
                  reason |-> "Insufficient historical patterns"]
            ELSE
            LET anomaly_score == calculate_movement_anomaly_score(
                                     current_features, historical_features)
                result == [is_anomaly |-> anomaly_score > 700,
                           confidence |-> anomaly_score,
                           reason |-> determine_movement_anomaly_reason(
                                          current_features, historical_features)]
            IN  IF store_prediction(write_fails).ok THEN result
                ELSE DetectionError

\* ------------------------------------------------------------------------
\* AnomalyDetector: location deviation and time pattern
\* ------------------------------------------------------------------------
\* user_profile is None, or a record whose common_routes is a sequence of
\* start locations <<lat, lng>> (possibly empty).
NoProfile == [none |-> TRUE]

\* float('inf'), larger than every distance in tenths of a km
Infinity == 1000000

\* lines 185-194: the running minimum over the common routes, in tenths of
\* a km.  Raised as soon as one geodesic raises.
RECURSIVE min_route_distance(_, _, _, _)
min_route_distance(current_location, common_routes, i, min_distance) ==
    IF i > Len(common_routes) THEN Ok(min_distance)
    ELSE LET distance == geodesic(current_location, common_routes[i])
         IN  IF ~distance.ok THEN Raised
             ELSE min_route_distance(current_location, common_routes, i + 1,
                                     IF distance.v < min_distance
                                     THEN distance.v ELSE min_distance)

\* line 203: min(min_distance / 5.0, 1.0), in thousandths
deviation_confidence_mut(min_distance) == min_distance * 20
deviation_confidence(min_distance) == Min(min_distance * 20, 1000)

detect_location_deviation(user_profile, current_location) ==
    IF user_profile = NoProfile THEN
        [is_deviation |-> FALSE, confidence |-> 0,
         reason |-> "No established route patterns"]
    ELSE IF Len(user_profile.common_routes) = 0 THEN
        [is_deviation |-> FALSE, confidence |-> 0,
         reason |-> "No established route patterns"]
    ELSE
    LET found == min_route_distance(current_location,
                                    user_profile.common_routes, 1, Infinity)
    IN  IF ~found.ok
        THEN [is_deviation |-> FALSE, confidence |-> 0,
              reason |-> "Detection error"]
        ELSE
        LET min_distance == found.v
            is_deviation == min_distance > 20
            is_major_deviation == min_distance > 50
        IN  [is_deviation |-> is_deviation,
             is_major_deviation |-> is_major_deviation,
             confidence |-> deviation_confidence(min_distance),
             reason |-> IF is_major_deviation THEN "Major route deviation"
                        ELSE IF is_deviation THEN "Minor route deviation"
                        ELSE "Following established route patterns",
             distance_from_route_km |-> min_distance]

\* line 245: the hour filter, a plain difference of the two hours
similar_time(loc_hour, current_hour) == Abs(loc_hour - current_hour) <= 2

RECURSIVE SelectSimilar(_, _)
SelectSimilar(historical_locations, current_hour) ==
    IF historical_locations = <<>> THEN <<>>
    ELSE LET loc == Head(historical_locations)
             rest == SelectSimilar(Tail(historical_locations), current_hour)
         IN  IF similar_time(loc.hour, current_hour) THEN <<loc>> \o rest
             ELSE rest

\* lines 270-272: z = distance / std (0 when std = 0), confidence
\* min(z / 3, 1) in thousandths.  distance in tenths of a km, std10 in
\* hundredths of a km.
time_confidence(distance, std10) ==
    IF std10 > 0 THEN Min((distance * 10000) \div (3 * std10), 1000) ELSE 0

\* Each historical sample is [hour, lat, lng]; current_location is
\* <<lat, lng>>.  The mean position is taken to the thousandth of a degree
\* and the standard deviation to the hundredth of a km.
detect_time_pattern_anomaly(historical_locations, current_hour, current_location) ==
    LET similar_time_locations == SelectSimilar(historical_locations, current_hour)
        n == Len(similar_time_locations)
    IN  IF n < 5
        THEN [is_anomaly |-> FALSE, confidence |-> 0,
              reason |-> "Insufficient historical data for time comparison"]
        ELSE
        LET avg_lat == SumSeq([i \in 1..n |-> similar_time_locations[i].lat]) \div n
            avg_lng == SumSeq([i \in 1..n |-> similar_time_locations[i].lng]) \div n
            avg == <<avg_lat, avg_lng>>
            distance == geodesic(current_location, avg)
            from_avg == [i \in 1..n |->
                            geodesic(coords(similar_time_locations[i]), avg)]
        IN  IF ~distance.ok \/ \E i \in 1..n : ~from_avg[i].ok
            THEN DetectionError
            ELSE
            LET distances_from_avg == [i \in 1..n |-> from_avg[i].v]
                spread == n * SumSq(distances_from_avg)
                          - SumSeq(distances_from_avg) * SumSeq(distances_from_avg)
                std10 == ISqrt(spread * 100) \div n
                \* z > 2.5  <=>  2 * distance > 5 * std
                is_anomaly == std10 > 0 /\ 2 * distance.v * 10 > 5 * std10
            IN  [is_anomaly |-> is_anomaly,
                 confidence |-> time_confidence(distance.v, std10),
                 reason |-> IF is_anomaly THEN "Location unusual for time"
                            ELSE "Normal location for this time",
                 distance_from_usual_km |-> distance.v]

\* ------------------------------------------------------------------------
\* PatternAnalyzer: hotspots
\* ------------------------------------------------------------------------
\* DBSCAN(eps=0.005, min_samples=5) over points in thousandths of a degree
eps == 5
min_samples == 5

\* the label of a noise point
NOISE == -1

\* Euclidean distance in degrees at most eps
within_eps(p, q) ==
    (p[1] - q[1]) * (p[1] - q[1]) + (p[2] - q[2]) * (p[2] - q[2]) <= eps * eps

\* the eps-neighbourhood of sample i, the sample itself included
neighbours(X, i) == {j \in 1..Len(X) : within_eps(X[i], X[j])}

core_samples_mut(X) ==
    {i \in 1..Len(X) : Cardinality(neighbours(X, i)) > min_samples}
core_samples(X) ==
    {i \in 1..Len(X) : Cardinality(neighbours(X, i)) >= min_samples}

\* everything reached from S through the neighbourhoods of core samples
RECURSIVE expand(_, _, _)
expand(X, core, S) ==
    LET T == S \cup UNION {neighbours(X, i) : i \in S \cap core}
    IN  IF T = S THEN S ELSE expand(X, core, T)

\* the labelling loop: samples in index order, each unlabelled core sample
\* opens the next cluster and labels what it reaches and is still unlabelled
RECURSIVE dbscan_inner(_, _, _, _, _)
dbscan_inner(X, core, i, labels, label_num) ==
    IF i > Len(X) THEN labels
    ELSE IF labels[i] # NOISE \/ i \notin core
         THEN dbscan_inner(X, core, i + 1, labels, label_num)
    ELSE LET members == expand(X, core, {i})
         IN  dbscan_inner(X, core, i + 1,
                 [j \in 1..Len(X) |->
                     IF j \in members /\ labels[j] = NOISE
                     THEN label_num ELSE labels[j]],
                 label_num + 1)

DBSCAN(X) ==
    dbscan_inner(X, core_samples(X), 1, [j \in 1..Len(X) |-> NOISE], 0)

\* line 287: severity_weights.get(sev, 0.5), in tenths
hotspot_severity_weight(sev) ==
    CASE sev = "critical" -> 10
      [] sev = "high" -> 8
      [] sev = "medium" -> 5
      [] sev = "low" -> 2
      [] OTHER -> 5

\* round(num / den, ...) to the nearest integer, ties to even
round_half_even(num, den) ==
    LET q == num \div den
        r == num % den
    IN  IF 2 * r > den THEN q + 1
        ELSE IF 2 * r < den THEN q
        ELSE IF q % 2 = 0 THEN q ELSE q + 1

RECURSIVE SelectSeq2(_, _, _)
\* the elements q[i] whose index i is in S, in index order
SelectSeq2(q, S, i) ==
    IF i > Len(q) THEN <<>>
    ELSE IF i \in S THEN <<q[i]>> \o SelectSeq2(q, S, i + 1)
    ELSE SelectSeq2(q, S, i + 1)

\* lines 270-298: one hotspot, risk_score in hundredths
hotspot_mut(cluster_id, incident_data, labels) ==
    LET members == {i \in 1..Len(labels) : labels[i] = cluster_id}
        incident_count == Cardinality(members)
        severity_counts ==
            [sev \in {incident_data[i].severity : i \in members} \ {"unknown"} |->
                Cardinality({i \in members : incident_data[i].severity = sev})]
        weighted == SumOver(DOMAIN severity_counts,
                        [sev \in DOMAIN severity_counts |->
                            hotspot_severity_weight(sev) * severity_counts[sev]])
    IN  [id |-> cluster_id,
         incident_count |-> incident_count,
         risk_score |-> round_half_even(10 * weighted, incident_count),
         severity_distribution |-> severity_counts]
hotspot(cluster_id, incident_data, labels) ==
    LET members == {i \in 1..Len(labels) : labels[i] = cluster_id}
        incident_count == Cardinality(members)
        severity_counts ==
            [sev \in {incident_data[i].severity : i \in members} |->
                Cardinality({i \in members : incident_data[i].severity = sev})]
        weighted == SumOver(DOMAIN severity_counts,
                        [sev \in DOMAIN severity_counts |->
                            hotspot_severity_weight(sev) * severity_counts[sev]])
    IN  [id |-> cluster_id,
         incident_count |-> incident_count,
         risk_score |-> round_half_even(10 * weighted, incident_count),
         severity_distribution |-> severity_counts]

\* hotspots.sort(key=risk_score, reverse=True): stable, highest first
RECURSIVE InsertHotspot(_, _)
InsertHotspot(h, q) ==
    IF q = <<>> THEN <<h>>
    ELSE IF Head(q).risk_score < h.risk_score THEN <<h>> \o q
    ELSE <<Head(q)>> \o InsertHotspot(h, Tail(q))

RECURSIVE sort_hotspots(_)
sort_hotspots_mut(q) == q
sort_hotspots(q) ==
    IF q = <<>> THEN <<>>
    ELSE InsertHotspot(Head(q), sort_hotspots(Tail(q)))

\* Each incident is [located, lat, lng, severity].  The centre and the
\* radius of a hotspot are not carried.
identify_hotspots(incidents) ==
    IF Len(incidents) < 10
    THEN [error |-> "Insufficient data for hotspot analysis"]
    ELSE
    LET incident_data ==
            SelectSeq2(incidents,
                       {i \in 1..Len(incidents) : incidents[i].located}, 1)
        coordinates == [i \in 1..Len(incident_data) |-> coords(incident_data[i])]
    IN  IF Len(coordinates) < 10
        THEN [error |-> "Insufficient location data"]
        ELSE
        LET labels == DBSCAN(coordinates)
            cluster_ids == SetToSortedSeq(
                {labels[i] : i \in 1..Len(labels)} \ {NOISE})
            hotspots == sort_hotspots(
                [k \in 1..Len(cluster_ids) |->
                    hotspot(cluster_ids[k], incident_data, labels)])
        IN  [error |-> "",
             coordinates |-> coordinates,
             labels |-> labels,
             hotspots |-> SubSeq(hotspots, 1, Min(10, Len(hotspots))),
             total_hotspots |-> Len(hotspots),
             noise_points |-> Cardinality({i \in 1..Len(labels) :
                                              labels[i] = NOISE})]

\* ------------------------------------------------------------------------
\* PatternAnalyzer: forecast
\* ------------------------------------------------------------------------
\* An incident is represented by the day number of its createdAt date; the
\* list is in the order the data source returned it.

\* incidents[-100:]
last_incidents(incidents) ==
    IF Len(incidents) <= 100 THEN incidents
    ELSE SubSeq(incidents, Len(incidents) - 99, Len(incidents))

\* sorted(daily_counts.keys())[-14:]
last_dates(dates) ==
    IF Len(dates) <= 14 THEN dates ELSE SubSeq(dates, Len(dates) - 13, Len(dates))

\* int(): truncation toward zero of num / den, den > 0
int_div(num, den) ==
    IF num >= 0 THEN num \div den ELSE -((-num) \div den)

\* np.polyfit(x, counts, 1)[0] for x = 0..n-1: the least-squares slope as the
\* exact fraction num / den, den > 0 for n >= 2
polyfit_slope(counts) ==
    LET n == Len(counts)
        sx == SumSeq([i \in 1..n |-> i - 1])
        sxx == SumSeq([i \in 1..n |-> (i - 1) * (i - 1)])
        sy == SumSeq(counts)
        sxy == SumSeq([i \in 1..n |-> (i - 1) * counts[i]])
    IN  [num |-> n * sxy - sx * sy, den |-> n * sxx - sx * sx]

\* lines 353-354 and 360: round(max(0, min(1, 1 - |recent_trend| /
\* max(mean, 1))), 2) in hundredths
forecast_confidence(counts) ==
    LET n == Len(counts)
        last3 == SumSeq(SubSeq(counts, n - 2, n))
        prev4 == SumSeq(SubSeq(counts, n - 6, n - 3))
        \* |recent_trend| * 12
        recent12 == Abs(4 * last3 - 3 * prev4)
        total == SumSeq(counts)
        \* max(mean, 1) * n
        scale == Max(total, n)
    IN  round_half_even(100 * Max(0, Min(12 * scale, 12 * scale - recent12 * n)),
                        12 * scale)

generate_predictions(incidents) ==
    IF Len(incidents) < 14
    THEN [error |-> "Insufficient data for predictions"]
    ELSE
    LET recent == last_incidents(incidents)
        daily_counts == [date \in {recent[i] : i \in 1..Len(recent)} |->
                            Cardinality({i \in 1..Len(recent) : recent[i] = date})]
        dates == last_dates(SetToSortedSeq(DOMAIN daily_counts))
        counts == [k \in 1..Len(dates) |-> daily_counts[dates[k]]]
    IN  IF Len(counts) < 7
        THEN [error |-> "Insufficient recent data"]
        ELSE
        LET trend == polyfit_slope(counts)
            last_count == counts[Len(counts)]
            predictions == [i \in 1..7 |->
                Max(0, int_div(last_count * trend.den + trend.num * i, trend.den))]
        IN  [error |-> "",
             counts |-> counts,
             next_7_days |-> predictions,
             trend_direction |->
                 IF 10 * trend.num > trend.den THEN "increasing"
                 ELSE IF 10 * trend.num < -trend.den THEN "decreasing"
                 ELSE "stable",
             trend |-> trend,
             confidence |-> forecast_confidence(counts),
             expected_total_next_week |-> SumSeq(predictions)]

\* ------------------------------------------------------------------------
\* PatternAnalyzer: recommendations and analyze_trends
\* ------------------------------------------------------------------------
\* An incident of a trend analysis is [located, well_formed, lat, lng,
\* severity, type, hour, day]: located says whether it has a location with
\* coordinates, well_formed whether those coordinates are a [lng, lat]
\* pair of numbers; hour and day are those of its createdAt (the query of
\* get_historical_incidents returns only incidents that have one).

\* hourly_counts[h]
hour_count(incidents, h) ==
    Cardinality({i \in 1..Len(incidents) : incidents[i].hour = h})

\* max(hourly_counts.items(), key=count)[0]: the first hour, in order of
\* first appearance, among those with the highest count
peak_hour_of(incidents) ==
    LET best == CHOOSE i \in 1..Len(incidents) :
                    /\ \A j \in 1..Len(incidents) :
                           hour_count(incidents, incidents[j].hour)
                               <= hour_count(incidents, incidents[i].hour)
                    /\ \A j \in 1..(i - 1) :
                           hour_count(incidents, incidents[j].hour)
                               < hour_count(incidents, incidents[i].hour)
    IN  incidents[best].hour

night_incidents_of(incidents) ==
    Cardinality({i \in 1..Len(incidents) :
                    incidents[i].hour >= 22 \/ incidents[i].hour < 6})

\* _generate_recommendations, for a non-empty incident list; the data field
\* is the percentage in tenths of a percent (the peak hour for the evening
\* rule)
generate_recommendations(incidents) ==
    LET total_incidents == Len(incidents)
        night_incidents == night_incidents_of(incidents)
        peak_hour == peak_hour_of(incidents)
        critical_count == Cardinality({i \in 1..Len(incidents) :
                                          incidents[i].severity = "critical"})
        panic_count == Cardinality({i \in 1..Len(incidents) :
                                       incidents[i].type = "panic"})
        night == IF 10 * night_incidents > 3 * total_incidents
                 THEN <<[type |-> "temporal", priority |-> "high",
                         message |-> "High nighttime incident rate detected. Consider increased night patrols.",
                         data |-> round_half_even(1000 * night_incidents,
                                                  total_incidents)]>>
                 ELSE <<>>
        evening == IF peak_hour \in {17, 18, 19}
                   THEN <<[type |-> "temporal", priority |-> "medium",
                           message |-> "Peak incidents during evening hours. Focus resources during 5-7 PM.",
                           data |-> peak_hour]>>
                   ELSE <<>>
        severity == IF 100 * critical_count > 15 * total_incidents
                    THEN <<[type |-> "severity", priority |-> "critical",
                            message |-> "High rate of critical incidents. Review emergency response protocols.",
                            data |-> round_half_even(1000 * critical_count,
                                                     total_incidents)]>>
                    ELSE <<>>
        panic == IF 5 * panic_count > total_incidents
                 THEN <<[type |-> "incident_type", priority |-> "high",
                         message |-> "High rate of panic alerts. Consider user education on proper panic button usage.",
                         data |-> round_half_even(1000 * panic_count,
                                                  total_incidents)]>>
                 ELSE <<>>
    IN  night \o evening \o severity \o panic

\* sorted(timeline.keys()): the distinct dates of the incidents, oldest first
dates_of(incidents) ==
    SetToSortedSeq({incidents[i].day : i \in 1..Len(incidents)})

\* dates[:7]
first_week(dates) == SubSeq(dates, 1, Min(7, Len(dates)))

\* dates[-7:]
last_week_mut(dates) == SubSeq(dates, 8, Min(14, Len(dates)))
last_week(dates) == SubSeq(dates, Max(1, Len(dates) - 6), Len(dates))

\* sum(timeline[date][key] for date in week) for the severity `key`
week_severity_count(incidents, week, key) ==
    Cardinality({i \in 1..Len(incidents) :
                    /\ incidents[i].severity = key
                    /\ \E k \in 1..Len(week) : week[k] = incidents[i].day})

\* lines 194-199
severity_trend_mut(first_week_critical, last_week_critical) ==
    IF 2 * last_week_critical >= 3 * first_week_critical
    THEN "increasing_severity"
    ELSE IF 2 * last_week_critical < first_week_critical
    THEN "decreasing_severity"
    ELSE "stable_severity"
severity_trend(first_week_critical, last_week_critical) ==
    IF 2 * last_week_critical > 3 * first_week_critical
    THEN "increasing_severity"
    ELSE IF 2 * last_week_critical < first_week_critical
    THEN "decreasing_severity"
    ELSE "stable_severity"

\* _analyze_severity_trends; the timeline is not carried
analyze_severity_trends(incidents) ==
    LET dates == dates_of(incidents)
        total(key) == Cardinality({i \in 1..Len(incidents) :
                                      incidents[i].severity = key})
    IN  [trend |-> IF Len(dates) >= 7
                   THEN severity_trend(
                            week_severity_count(incidents, first_week(dates), "critical"),
                            week_severity_count(incidents, last_week(dates), "critical"))
                   ELSE "insufficient_data",
         total_critical |-> total("critical"),
         total_high |-> total("high"),
         total_medium |-> total("medium"),
         total_low |-> total("low")]

\* _analyze_type_trends: growth rates in tenths of a percent, for the types
\* seen in the first week; fastest_growing is <<>> for None, else the first
\* type, in order of first appearance, with the highest rate.  The timeline
\* is not carried.
analyze_type_trends(incidents) ==
    LET dates == dates_of(incidents)
        types == {incidents[i].type : i \in 1..Len(incidents)}
        \* sum(type_timeline[date][t] for date in week)
        week_count(week, t) ==
            Cardinality({i \in 1..Len(incidents) :
                            /\ incidents[i].type = t
                            /\ \E k \in 1..Len(week) : week[k] = incidents[i].day})
        first_week_count(t) == week_count(first_week(dates), t)
        last_week_count(t) == week_count(last_week(dates), t)
        rated == IF Len(dates) >= 7
                 THEN {t \in types : first_week_count(t) > 0}
                 ELSE {}
        growth_rates ==
            [t \in rated |->
                round_half_even((last_week_count(t) - first_week_count(t)) * 1000,
                                first_week_count(t))]
        first_seen(t) == CHOOSE i \in 1..Len(incidents) :
                             /\ incidents[i].type = t
                             /\ \A j \in 1..(i - 1) : incidents[j].type # t
    IN  [type_distribution |->
             [t \in types |-> Cardinality({i \in 1..Len(incidents) :
                                              incidents[i].type = t})],
         growth_rates |-> growth_rates,
         fastest_growing |->
             IF rated = {} THEN <<>>
             ELSE <<CHOOSE t \in rated :
                      /\ \A u \in rated : growth_rates[u] <= growth_rates[t]
                      /\ \A u \in rated :
                             growth_rates[u] = growth_rates[t]
                                 => first_seen(t) <= first_seen(u)>>]

\* _analyze_spatial_trends up to the bounding box: Raised when the
\* coordinates of a located incident cannot be indexed (line 132); the
\* coarse cluster count is not carried.
analyze_spatial_trends(incidents) ==
    LET located == {i \in 1..Len(incidents) : incidents[i].located}
    IN  IF \E i \in located : ~incidents[i].well_formed THEN Raised
        ELSE IF Cardinality(located) < 5
        THEN Ok([error |-> "Insufficient location data"])
        ELSE LET lats == {incidents[i].lat : i \in located}
                 lngs == {incidents[i].lng : i \in located}
             IN  Ok([error |-> "",
                     min_lat |-> CHOOSE x \in lats : \A y \in lats : x <= y,
                     max_lat |-> CHOOSE x \in lats : \A y \in lats : x >= y,
                     min_lng |-> CHOOSE x \in lngs : \A y \in lngs : x <= y,
                     max_lng |-> CHOOSE x \in lngs : \A y \in lngs : x >= y])

\* analyze_trends on the incidents the data source returned.  The sections
\* are evaluated in the order of lines 41-50; an exception in any of them is
\* caught at line 56.
analyze_trends(incidents) ==
    IF Len(incidents) < 10
    THEN [error |-> "Insufficient data for trend analysis",
          incident_count |-> Len(incidents)]
    ELSE
    LET spatial_trends == analyze_spatial_trends(incidents)
    IN  IF ~spatial_trends.ok THEN [error |-> "Trend analysis failed"]
        ELSE [error |-> "",
              total_incidents |-> Len(incidents),
              night_incidents |-> night_incidents_of(incidents),
              day_incidents |-> Len(incidents) - night_incidents_of(incidents),
              peak_hour |-> peak_hour_of(incidents),
              spatial_trends |-> spatial_trends.v,
              severity_trends |-> analyze_severity_trends(incidents),
              type_trends |-> analyze_type_trends(incidents),
              hotspots |-> identify_hotspots(incidents),
              predictions |-> generate_predictions(
                                  [i \in 1..Len(incidents) |-> incidents[i].day]),
              recommendations |-> generate_recommendations(incidents)]

\* ------------------------------------------------------------------------
\* RiskPredictor: emergency response
\* ------------------------------------------------------------------------
\* A resource is [id, type, latitude, longitude, available]; scores are in
\* thousandths, priority scores in ten-thousandths.

\* _calculate_capability_score
calculate_capability_score(resource, incident_type) ==
    LET t == resource.type
    IN  CASE t = "ambulance" ->
               (CASE incident_type = "medical" -> 1000
                  [] incident_type = "accident" -> 900
                  [] incident_type = "panic" -> 700
                  [] incident_type = "fire" -> 300
                  [] OTHER -> 500)
          [] t = "police" ->
               (CASE incident_type = "panic" -> 1000
                  [] incident_type = "crime" -> 1000
                  [] incident_type = "accident" -> 800
                  [] incident_type = "medical" -> 400
                  [] OTHER -> 500)
          [] t = "fire_department" ->
               (CASE incident_type = "fire" -> 1000
                  [] incident_type = "accident" -> 800
                  [] incident_type = "medical" -> 600
                  [] incident_type = "panic" -> 500
                  [] OTHER -> 500)
          [] t = "rescue_team" ->
               (CASE incident_type = "accident" -> 1000
                  [] incident_type = "medical" -> 800
                  [] incident_type = "panic" -> 900
                  [] incident_type = "fire" -> 700
                  [] OTHER -> 500)
          [] OTHER -> 500

\* max(0, 1 - distance / 50), distance in tenths of a km
distance_score(distance) == Max(0, 1000 - 2 * distance)

\* 1.0 if resource['available'] else 0.1
availability_score_mut(resource) == 1000
availability_score(resource) == IF resource.available THEN 1000 ELSE 100

\* lines 238-240
priority_score_mut(distance, capability, availability) ==
    distance * 4 + capability * 2 + availability * 4
priority_score(distance, capability, availability) ==
    distance * 4 + capability * 4 + availability * 2

\* priorities.sort(key=priority_score, reverse=True): stable, highest first
RECURSIVE InsertPriority(_, _)
InsertPriority(p, q) ==
    IF q = <<>> THEN <<p>>
    ELSE IF Head(q).priority_score < p.priority_score THEN <<p>> \o q
    ELSE <<Head(q)>> \o InsertPriority(p, Tail(q))

RECURSIVE sort_priorities(_)
sort_priorities(q) ==
    IF q = <<>> THEN <<>>
    ELSE InsertPriority(Head(q), sort_priorities(Tail(q)))

optimize_emergency_response(incident_location, incident_type, severity, available_resources) ==
    LET n == Len(available_resources)
        dist == [k \in 1..n |->
                    geodesic(incident_location,
                             <<available_resources[k].latitude,
                               available_resources[k].longitude>>)]
    IN  IF \E k \in 1..n : ~dist[k].ok
        THEN [error |-> "Optimization failed"]
        ELSE
        LET priorities == sort_priorities(
                [k \in 1..n |->
                    LET resource == available_resources[k]
                        score == priority_score(
                                     distance_score(dist[k].v),
                                     calculate_capability_score(resource,
                                                                incident_type),
                                     availability_score(resource))
                    IN  [resource_id |-> resource.id,
                         resource_type |-> resource.type,
                         priority_score |-> score,
                         estimated_arrival_time |-> dist[k].v,
                         recommendation |-> IF score > 7000 THEN "primary"
                                            ELSE "secondary"]])
        IN  [error |-> "",
             recommended_resources |-> SubSeq(priorities, 1, Min(3, n)),
             estimated_response_time |->
                 IF n > 0 THEN priorities[1].estimated_arrival_time ELSE -1,
             incident_severity |-> severity,
             incident_type |-> incident_type,
             available_resources_count |-> n]

\* ------------------------------------------------------------------------
\* SpecCalls: the scoring operations as sequential calls
\* ------------------------------------------------------------------------
\* Bounds of the inputs
MaxSevCount == 1
MaxCur == 4
MaxSpeedHist == 21

\* datetime.now().hour: every hour next to a boundary of the multiplier
Hours == {0, 5, 6, 8, 9, 16, 17, 19, 20, 21, 22, 23}

\* Route end points: 5.5 km and 33 km apart, and one latitude of 95 degrees.
RoutePoints == {<<12900, 77500>>, <<12950, 77500>>, <<13200, 77500>>,
                <<95000, 77500>>}

\* What the opaque regressor may answer (thousandths).
Predictions == {-200, 0, 350, 1000, 1400}

\* Scores handed to get_risk_level / get_recommendations.
ScoreInputs == (-5)..1005

SeverityKeys == Severities \cup {"unknown"}

Radii == {0, 500, 1000, 2000}

SpeedInputs == {NoSpeed, 0, 1, 2, 30, 60, 119, 120, 121, 199, 200, 201, 250}

\* missing samples without a speed, then n samples alternating lo and hi
SpeedHistory(n, lo, hi, missing) ==
    [i \in 1..(missing + n) |->
        IF i <= missing THEN NoSpeed
        ELSE IF (i - missing) % 2 = 1 THEN lo ELSE hi]

SpeedHistories ==
    {SpeedHistory(n, p[1], p[2], m) :
        n \in {0, 19, 20, MaxSpeedHist},
        p \in {<<40, 40>>, <<30, 60>>, <<5, 90>>},
        m \in {0, 3}}

\* Step patterns of a walk along the meridian (thousandths of a degree per
\* sample), repeated cyclically.
StepPatterns == {<<1>>, <<0>>, <<1, 0, 2>>, <<1, -1>>, <<2, 1, 0, 0, 1>>}

RECURSIVE WalkLat(_, _, _)
WalkLat(steps, i, lat0) ==
    IF i <= 1 THEN lat0
    ELSE WalkLat(steps, i - 1, lat0) + steps[((i - 2) % Len(steps)) + 1]

\* n samples, dt seconds apart, the last `unstamped` of them without createdAt
Walk(n, steps, lat0, dt, unstamped) ==
    [i \in 1..n |->
        [lat |-> WalkLat(steps, i, lat0), lng |-> 77500,
         createdAt |-> IF i > n - unstamped THEN NoTime ELSE i * dt]]

HistoryLengths == {0, 9, 10, 15, 20, 24}

callFrame == <<model, scaler, last_trained, movement_model, ad_scaler,
               ad_last_trained, clock, rt, at, rd>>

\* app.py predict_route_risk -> RiskPredictor.predict_route_risk
RouteRiskCall ==
    /\ call = NoCall
    /\ \E start_coords \in RoutePoints, end_coords \in RoutePoints, hour \in Hours,
          pred \in Predictions, raises \in BOOLEAN, write_fails \in BOOLEAN :
          /\ (model = None) => (pred = 0 /\ ~raises /\ ~write_fails)
          /\ raises => (pred = 0 /\ ~write_fails)
          /\ call' = [op |-> "predict_route_risk",
                      start_coords |-> start_coords, end_coords |-> end_coords,
                      hour |-> hour, model_none |-> (model = None),
                      raises |-> raises, pred |-> pred,
                      write_fails |-> write_fails,
                      result |-> predict_route_risk(model, start_coords, end_coords,
                                                    hour, pred, raises, write_fails)]
    /\ UNCHANGED callFrame

\* app.py lines 57-62: the level and the advice of one score
RiskLevelCall ==
    /\ call = NoCall
    /\ \E risk_score \in ScoreInputs :
          call' = [op |-> "get_risk_level", risk_score |-> risk_score,
                   risk_level |-> get_risk_level(risk_score),
                   recommendations |-> get_recommendations(risk_score)]
    /\ UNCHANGED callFrame

\* app.py predict_area_risk -> RiskPredictor.predict_area_risk; the
\* severity distribution is what get_area_incident_stats reports.
AreaRiskCall ==
    /\ call = NoCall
    /\ \E severity_dist \in [SeverityKeys -> 0..MaxSevCount], radius \in Radii,
          hour \in Hours :
          call' = [op |-> "predict_area_risk", severity_dist |-> severity_dist,
                   radius |-> radius, hour |-> hour,
                   result |-> predict_area_risk(severity_dist, radius, hour)]
    /\ UNCHANGED callFrame

\* app.py detect_speed_anomaly -> AnomalyDetector.detect_speed_anomaly
SpeedCall ==
    /\ call = NoCall
    /\ \E historical_locations \in SpeedHistories, current_speed \in SpeedInputs,
          expected_movement \in BOOLEAN :
          call' = [op |-> "detect_speed_anomaly",
                   historical_speeds |-> Len(historical_speeds_of(historical_locations)),
                   historical_locations |-> historical_locations,
                   current_speed_kmh |-> to_kmh(current_speed),
                   expected_movement |-> expected_movement,
                   result |-> detect_speed_anomaly(historical_locations,
                                                   current_speed, expected_movement)]
    /\ UNCHANGED callFrame

\* app.py detect_movement_anomaly -> AnomalyDetector.detect_movement_anomaly
MovementCall ==
    /\ call = NoCall
    /\ \E n \in 0..MaxCur, steps \in StepPatterns, dt \in {0, 20},
          unstamped \in {0, 1}, h \in HistoryLengths, hsteps \in StepPatterns,
          lat0 \in {12900, 89999}, write_fails \in BOOLEAN :
          /\ unstamped <= n
          \* the audit write is attempted on the full path only
          /\ write_fails => (n >= 3 /\ h >= 10)
          /\ LET locations == Walk(n, steps, lat0, dt, unstamped)
                 historical_patterns == Walk(h, hsteps, 12900, 20, 0)
             IN  call' = [op |-> "detect_movement_anomaly",
                          locations |-> locations,
                          historical |-> Len(historical_patterns),
                          hsteps |-> hsteps,
                          write_fails |-> write_fails,
                          result |-> detect_movement_anomaly(
                                         locations, historical_patterns, 500,
                                         write_fails)]
    /\ UNCHANGED callFrame

\* Stored profiles: none, one without routes, one and two common routes.
Profiles ==
    {NoProfile, [common_routes |-> <<>>],
     [common_routes |-> <<<<12900, 77500>>>>],
     [common_routes |-> <<<<13200, 77500>>, <<12900, 77500>>>>],
     [common_routes |-> <<<<12900, 77500>>, <<95000, 77500>>>>]}

\* Current positions: on a route, 1.1, 2.2, 3.3, 5.6 and 11 km away, invalid.
CurrentPoints ==
    {<<12900, 77500>>, <<12910, 77500>>, <<12920, 77500>>, <<12930, 77500>>,
     <<12950, 77500>>, <<13000, 77500>>, <<95000, 77500>>}

\* n historical samples at one hour of day, spread apart along the meridian
TimeHistory(n, hour, spread) ==
    [i \in 1..n |-> [hour |-> hour, lat |-> 12900 + spread * (i % 3),
                     lng |-> 77500]]

\* Cluster sites in thousandths of a degree: a chain of sites 5 apart, a
\* site 6 from the first, and a remote one.
Sites == <<<<12900, 77500>>, <<12903, 77504>>, <<12906, 77500>>,
           <<12911, 77500>>, <<13000, 77600>>>>

SeverityPatterns ==
    {<<"low">>, <<"critical">>,
     <<"critical", "low", "medium", "unknown", "high">>}

\* per[s] incidents at site s, in site order, after `unlocated` incidents
\* without a location; severities follow the pattern cyclically
RECURSIVE SiteIncidents(_, _)
SiteIncidents(per, s) ==
    IF s > Len(Sites) THEN <<>>
    ELSE [i \in 1..per[s] |-> Sites[s]] \o SiteIncidents(per, s + 1)

Incidents(per, unlocated, pattern) ==
    LET placed == SiteIncidents(per, 1)
        n == unlocated + Len(placed)
    IN  [i \in 1..n |->
            [located |-> i > unlocated,
             lat |-> IF i > unlocated THEN placed[i - unlocated][1] ELSE 0,
             lng |-> IF i > unlocated THEN placed[i - unlocated][2] ELSE 0,
             severity |-> pattern[(i % Len(pattern)) + 1]]]

\* Daily counts first, first + step, ... over `days` days, `spike` more on
\* the last day; a day without incidents is not a date of the data.
MaxDays == 16
DailyCounts(days, first, step, spike) ==
    [d \in 1..days |->
        Max(0, first + step * (d - 1) + (IF d = days THEN spike ELSE 0))]

\* the incident list of the daily counts, oldest day first
RECURSIVE IncidentDays(_, _)
IncidentDays(daily, d) ==
    IF d > Len(daily) THEN <<>>
    ELSE [i \in 1..daily[d] |-> d] \o IncidentDays(daily, d + 1)

Reverse(q) == [i \in 1..Len(q) |-> q[Len(q) + 1 - i]]

\* AnomalyDetector.detect_location_deviation; the profile is what
\* get_user_profile reports
LocationDeviationCall ==
    /\ call = NoCall
    /\ \E user_profile \in Profiles, current_location \in CurrentPoints :
          call' = [op |-> "detect_location_deviation",
                   user_profile |-> user_profile,
                   current_location |-> current_location,
                   result |-> detect_location_deviation(user_profile,
                                                        current_location)]
    /\ UNCHANGED callFrame

\* AnomalyDetector.detect_time_pattern_anomaly; the history is what
\* get_user_movement_patterns reports
TimePatternCall ==
    /\ call = NoCall
    /\ \E n \in {0, 4, 5, 8}, loc_hour \in {0, 1, 12, 22, 23},
          spread \in {0, 10, 30}, current_hour \in {0, 2, 3, 12, 23},
          current_location \in CurrentPoints :
          LET historical_locations == TimeHistory(n, loc_hour, spread)
          IN  call' = [op |-> "detect_time_pattern_anomaly",
                       historical_locations |-> historical_locations,
                       current_hour |-> current_hour,
                       current_location |-> current_location,
                       result |-> detect_time_pattern_anomaly(
                                      historical_locations, current_hour,
                                      current_location)]
    /\ UNCHANGED callFrame

\* analyze_trends line 48 -> PatternAnalyzer._identify_hotspots
HotspotsCall ==
    /\ call = NoCall
    /\ \E per \in [1..Len(Sites) -> {0, 1, 4, 5}], unlocated \in {0, 2},
          pattern \in SeverityPatterns :
          LET incidents == Incidents(per, unlocated, pattern)
          IN  call' = [op |-> "_identify_hotspots",
                       incidents |-> incidents,
                       result |-> identify_hotspots(incidents)]
    /\ UNCHANGED callFrame

\* Many hotspots: k sites a tenth of a degree apart with 5 incidents each,
\* the severity turning from site to site, then `lone` incidents far from
\* every site and from each other.
MaxClusters == 12

\* analyze_trends line 48 with incidents spread over many sites
ManyHotspotsCall ==
    /\ call = NoCall
    /\ \E k \in (MaxClusters - 3)..MaxClusters, shift \in 0..3, lone \in 0..2 :
          LET turn == <<"low", "critical", "medium", "high">>
              incidents ==
                  [i \in 1..(5 * k + lone) |->
                      IF i <= 5 * k
                      THEN LET c == (i - 1) \div 5
                           IN  [located |-> TRUE, lat |-> 12900 + 100 * c,
                                lng |-> 77500,
                                severity |-> turn[((c + shift) % 4) + 1]]
                      ELSE [located |-> TRUE, lat |-> 12900 + 100 * (i - 5 * k),
                            lng |-> 78500, severity |-> "critical"]]
          IN  call' = [op |-> "_identify_hotspots",
                       incidents |-> incidents,
                       result |-> identify_hotspots(incidents)]
    /\ UNCHANGED callFrame

\* analyze_trends line 49 -> PatternAnalyzer._generate_predictions
PredictionsCall ==
    /\ call = NoCall
    /\ \E days \in {5, 7, 14, MaxDays}, first \in {1, 2, 8, 20},
          step \in {-1, 0, 1, 2}, spike \in {0, 10}, newest_first \in BOOLEAN :
          LET daily == DailyCounts(days, first, step, spike)
              chronological == IncidentDays(daily, 1)
              incidents == IF newest_first THEN Reverse(chronological)
                           ELSE chronological
          IN  call' = [op |-> "_generate_predictions",
                       daily |-> daily,
                       newest_first |-> newest_first,
                       result |-> generate_predictions(incidents)]
    /\ UNCHANGED callFrame

\* n incidents of a trend analysis: the first `malformed` with coordinates
\* that are no pair, the first `night` at 23:00 and the others at `hour`,
\* the last `critical` of severity critical, the first `panic` of type
\* panic; all at two sites, on 7 consecutive days in turn.
TrendIncidents(n, malformed, night, hour, critical, panic) ==
    [i \in 1..n |->
        [located |-> TRUE,
         well_formed |-> i > malformed,
         lat |-> IF i > malformed THEN Sites[1 + (i % 2)][1] ELSE 0,
         lng |-> IF i > malformed THEN Sites[1 + (i % 2)][2] ELSE 0,
         severity |-> IF i > n - critical THEN "critical" ELSE "low",
         type |-> IF i <= panic THEN "panic" ELSE "theft",
         hour |-> IF i <= night THEN 23 ELSE hour,
         day |-> 1 + (i % 7)]]

\* app.py get_trends -> PatternAnalyzer.analyze_trends
TrendsCall ==
    /\ call = NoCall
    /\ \E n \in {9, 10, 11, 20}, malformed \in {0, 1},
          night \in {0, 3, 4, 7}, hour \in {12, 18},
          critical \in {0, 1, 2, 3, 4}, panic \in {0, 2, 3, 5} :
          LET incidents == TrendIncidents(n, malformed, night, hour,
                                          critical, panic)
          IN  call' = [op |-> "analyze_trends",
                       incidents |-> incidents,
                       result |-> analyze_trends(incidents)]
    /\ UNCHANGED callFrame

\* The resources a request may list: next to the incident, 5.6, 11, 33 and
\* 61 km away, and one whose latitude is no latitude.
Resources ==
    <<[id |-> 1, type |-> "ambulance", latitude |-> 12900,
       longitude |-> 77500, available |-> TRUE],
      [id |-> 2, type |-> "police", latitude |-> 12950,
       longitude |-> 77500, available |-> TRUE],
      [id |-> 3, type |-> "fire_department", latitude |-> 13200,
       longitude |-> 77500, available |-> FALSE],
      [id |-> 4, type |-> "rescue_team", latitude |-> 12900,
       longitude |-> 77500, available |-> FALSE],
      [id |-> 5, type |-> "drone", latitude |-> 13000,
       longitude |-> 77500, available |-> TRUE],
      [id |-> 6, type |-> "police", latitude |-> 13450,
       longitude |-> 77500, available |-> TRUE],
      [id |-> 7, type |-> "ambulance", latitude |-> 95000,
       longitude |-> 77500, available |-> TRUE]>>

IncidentTypes == {"medical", "panic", "fire", "accident", "flood"}

\* app.py optimize_emergency_response -> RiskPredictor.optimize_emergency_response
EmergencyCall ==
    /\ call = NoCall
    /\ \E chosen \in SUBSET (1..Len(Resources)), incident_type \in IncidentTypes,
          reversed \in BOOLEAN :
          LET listed == SelectSeq2(Resources, chosen, 1)
              available_resources == IF reversed THEN Reverse(listed) ELSE listed
          IN  call' = [op |-> "optimize_emergency_response",
                       incident_type |-> incident_type,
                       available_resources |-> available_resources,
                       result |-> optimize_emergency_response(
                                      <<12900, 77500>>, incident_type, "high",
                                      available_resources)]
    /\ UNCHANGED callFrame

\* Wall-clock readings (seconds) of two successive calls
CallTimes == {500, 560}

\* AnomalyDetector._extract_movement_features called twice on one sample
\* sequence, the second call not before the first
FeaturesCall ==
    /\ call = NoCall
    /\ \E n \in 0..MaxCur, steps \in StepPatterns, unstamped \in {0, 1, 2},
          now \in CallTimes, later \in CallTimes, lat0 \in {12900, 89999} :
          /\ unstamped <= n
          /\ now <= later
          /\ LET locations == Walk(n, steps, lat0, 20, unstamped)
             IN  call' = [op |-> "_extract_movement_features",
                          locations |-> locations,
                          first |-> extract_movement_features(locations, now),
                          second |-> extract_movement_features(locations, later)]
    /\ UNCHANGED callFrame

\* The incidents collection: up to MaxStored incidents of the last days and
\* up to one of 45 days ago, 334 m from the query point, and up to one
\* recent incident 1.3 km from it.
MaxStored == 2

Stores ==
    LET StoredAt(lat, n, severity, age) ==
            [i \in 1..n |-> [lat |-> lat, lng |-> 77500,
                             severity |-> severity, age |-> age]]
    IN  {StoredAt(12903, recent, s1, 3) \o StoredAt(12903, old, s2, 45)
            \o StoredAt(12912, far, "high", 10) :
         recent \in 0..MaxStored, old \in 0..1, far \in 0..1,
         s1 \in Severities, s2 \in Severities}

\* app.py predict_area_risk with the collection behind the database client
AreaRiskAtCall ==
    /\ call = NoCall
    /\ \E stored \in Stores, latitude \in {12900, 95000}, radius \in Radii,
          hour \in {9, 23} :
          call' = [op |-> "predict_area_risk_at", stored |-> stored,
                   latitude |-> latitude, longitude |-> 77500,
                   radius |-> radius, hour |-> hour,
                   result |-> predict_area_risk_at(stored, latitude, 77500,
                                                   radius, hour)]
    /\ UNCHANGED callFrame

\* prepare_features as called by predict_route_risk (line 106)
PrepareFeaturesCall ==
    /\ call = NoCall
    /\ \E stored \in Stores, start_coords \in RoutePoints,
          end_coords \in RoutePoints :
          call' = [op |-> "prepare_features", stored |-> stored,
                   start_coords |-> start_coords, end_coords |-> end_coords,
                   historical_incidents_count |->
                       historical_incidents_count(stored, start_coords, end_coords)]
    /\ UNCHANGED callFrame

\* Incidents on `days` distinct dates: one low theft on every date, and
\* critical panic alerts: `first` on the oldest date, `mid` on the seventh
\* date (the last one when there are fewer) and `last` on the newest date.
MaxTrendDays == 15
MaxCritical == 3

TrendDays(days, first, mid, last) ==
    [d \in 1..days |-> [day |-> d, severity |-> "low", type |-> "theft"]]
    \o [i \in 1..first |-> [day |-> 1, severity |-> "critical", type |-> "panic"]]
    \o [i \in 1..mid |-> [day |-> Min(7, days), severity |-> "critical",
                          type |-> "panic"]]
    \o [i \in 1..last |-> [day |-> days, severity |-> "critical", type |-> "panic"]]

\* analyze_trends line 46 -> PatternAnalyzer._analyze_severity_trends; the
\* record keeps the two counts of lines 191-192
SeverityTrendsCall ==
    /\ call = NoCall
    /\ \E days \in {5, 6, 7, 8, 13, 14, MaxTrendDays}, first \in 0..MaxCritical,
          mid \in 0..MaxCritical, last \in 0..MaxCritical :
          LET incidents == TrendDays(days, first, mid, last)
              dates == dates_of(incidents)
          IN  call' = [op |-> "_analyze_severity_trends",
                       incidents |-> incidents,
                       first_week_critical |->
                           week_severity_count(incidents, first_week(dates), "critical"),
                       last_week_critical |->
                           week_severity_count(incidents, last_week(dates), "critical"),
                       result |-> analyze_severity_trends(incidents)]
    /\ UNCHANGED callFrame

\* analyze_trends line 47 -> PatternAnalyzer._analyze_type_trends
TypeTrendsCall ==
    /\ call = NoCall
    /\ \E days \in {5, 6, 7, 8, 13, 14, MaxTrendDays}, first \in 0..MaxCritical,
          mid \in 0..MaxCritical, last \in 0..MaxCritical :
          LET incidents == TrendDays(days, first, mid, last)
          IN  call' = [op |-> "_analyze_type_trends",
                       incidents |-> incidents,
                       result |-> analyze_type_trends(incidents)]
    /\ UNCHANGED callFrame

\* the handler answers the request; the service waits for the next one
CallReturn ==
    /\ call # NoCall
    /\ call' = NoCall
    /\ UNCHANGED callFrame

NextCalls ==
    \/ RouteRiskCall \/ RiskLevelCall \/ AreaRiskCall
    \/ SpeedCall \/ MovementCall
    \/ LocationDeviationCall \/ TimePatternCall
    \/ HotspotsCall \/ PredictionsCall
    \/ FeaturesCall \/ TrendsCall \/ EmergencyCall
    \/ AreaRiskAtCall \/ PrepareFeaturesCall \/ ManyHotspotsCall
    \/ SeverityTrendsCall \/ TypeTrendsCall
    \/ CallReturn

SpecCalls == Init /\ [][NextCalls]_vars

\* ------------------------------------------------------------------------
\* Claims about the scoring operations
\* ------------------------------------------------------------------------

\* C5: get_risk_level is a step function of the score with exactly the
\* boundaries 0.8, 0.6 and 0.4, each inclusive on the upper side, and
\* get_recommendations switches at the same boundaries: two scores with the
\* same risk level always get the same advice list.
C5_RiskLevelSteps ==
    call.op = "get_risk_level" =>
        /\ (call.risk_level = "critical") <=> (call.risk_score >= 800)
        /\ (call.risk_level = "high") <=>
               (call.risk_score >= 600 /\ call.risk_score < 800)
        /\ (call.risk_level = "medium") <=>
               (call.risk_score >= 400 /\ call.risk_score < 600)
        /\ (call.risk_level = "low") <=> (call.risk_score < 400)
        /\ \A other \in ScoreInputs :
               get_risk_level(other) = call.risk_level =>
                   get_recommendations(other) = call.recommendations

\* A score exactly on the upper boundary has been classified.
C5_Witness ==
    /\ call.op = "get_risk_level"
    /\ call.risk_score = 800
    /\ call.risk_level = "critical"
    /\ Len(call.recommendations) = 5

\* C6: with no trained regressor, or when the trained path raises,
\* predict_route_risk never fails and returns exactly
\* min(1, 0.4 + min(distance_km/100, 0.3) + 0.3 * m), m the time-risk
\* multiplier of the current hour.
C6_HeuristicNeverFails ==
    (call.op = "predict_route_risk" /\ (call.model_none \/ call.raises)) =>
        /\ call.result.ok
        /\ LET distance == geodesic(call.start_coords, call.end_coords).v
               m == get_time_risk_multiplier(call.hour)
           IN  call.result.v = Min(1000, 400 + Min(distance, 300) + 30 * m)

\* C7: detect_movement_anomaly with fewer than 3 current samples, or with 3
\* or more current samples and fewer than 10 historical samples, returns
\* is_anomaly = false and confidence = 0.0 with a non-empty reason.
C7_MovementInsufficientData ==
    (/\ call.op = "detect_movement_anomaly"
     /\ \/ Len(call.locations) < 3
        \/ (Len(call.locations) >= 3 /\ call.historical < 10)) =>
        /\ call.result.is_anomaly = FALSE
        /\ call.result.confidence = 0
        /\ call.result.reason # ""

\* Three current samples met nine historical ones.
C7_Witness ==
    /\ call.op = "detect_movement_anomaly"
    /\ Len(call.locations) = 3
    /\ call.historical = 9
    /\ call.result.reason = "Insufficient historical data"

\* C8: with fewer than 20 historical speed samples, detect_speed_anomaly
\* decides by fixed thresholds in this order: over 200 km/h anomaly with
\* confidence 0.9; otherwise over 120 km/h anomaly with confidence 0.7;
\* otherwise under 1 km/h with expected_movement set anomaly with confidence
\* 0.6; otherwise no anomaly with confidence 0.  (Speeds in half km/h.)
C8_GeneralSpeedThresholds ==
    (call.op = "detect_speed_anomaly" /\ call.historical_speeds < 20) =>
        LET v == call.current_speed_kmh
            r == call.result
        IN  IF v > 400 THEN r.is_anomaly /\ r.confidence = 900
            ELSE IF v > 240 THEN r.is_anomaly /\ r.confidence = 700
            ELSE IF v < 2 /\ call.expected_movement
                 THEN r.is_anomaly /\ r.confidence = 600
            ELSE ~r.is_anomaly /\ r.confidence = 0

\* 250 km/h with 19 historical speeds was judged.
C8_Witness ==
    /\ call.op = "detect_speed_anomaly"
    /\ call.historical_speeds = 19
    /\ call.current_speed_kmh = 500
    /\ call.result.is_anomaly
    /\ call.result.confidence = 900

\* C9: in the fine clustering configuration (eps 0.005 degrees, min_samples
\* 5) any 5 or more incident points that are pairwise within eps of each
\* other carry one common cluster label and none of them is noise, and a
\* point farther than eps from every other point is labelled noise (-1),
\* which is the id of no hotspot.
C9_FineClustering ==
    (call.op = "_identify_hotspots" /\ call.result.error = "") =>
        LET X == call.result.coordinates
            labels == call.result.labels
            close(p, q) == (p[1] - q[1]) * (p[1] - q[1])
                           + (p[2] - q[2]) * (p[2] - q[2]) <= 25
        IN  /\ \A Q \in SUBSET {X[i] : i \in 1..Len(X)} :
                   LET S == {i \in 1..Len(X) : X[i] \in Q}
                   IN  (Cardinality(S) >= 5 /\ \A p \in Q, q \in Q : close(p, q)) =>
                           \E c \in 0..Len(X) : \A i \in S : labels[i] = c
            /\ \A i \in 1..Len(X) :
                   (\A j \in 1..Len(X) : j # i => ~close(X[i], X[j])) =>
                       labels[i] = -1
            /\ \A k \in 1..Len(call.result.hotspots) :
                   call.result.hotspots[k].id # -1

\* Five points on two sites 5 thousandths apart were clustered together and
\* a lone remote point was left as noise.
C9_Witness ==
    /\ call.op = "_identify_hotspots"
    /\ call.result.error = ""
    /\ LET X == call.result.coordinates
           labels == call.result.labels
           site(p) == {i \in 1..Len(X) : X[i] = p}
       IN  /\ Cardinality(site(<<12900, 77500>>)) = 4
           /\ Cardinality(site(<<12903, 77504>>)) = 1
           /\ Cardinality(site(<<12906, 77500>>)) = 0
           /\ Cardinality(site(<<13000, 77600>>)) = 1
           /\ \A i \in site(<<12900, 77500>>) \cup site(<<12903, 77504>>) :
                  labels[i] = 0
           /\ \A i \in site(<<13000, 77600>>) : labels[i] = -1
    /\ call.result.noise_points >= 1

\* C10: for strictly increasing daily incident counts over 14 or more
\* consecutive days, supplied oldest first, _generate_predictions reports
\* trend_direction 'increasing' and each of the 7 forecast values is
\* strictly greater than the last day's count.
C10_IncreasingForecast ==
    (/\ call.op = "_generate_predictions"
     /\ ~call.newest_first
     /\ Len(call.daily) >= 14
     /\ call.daily[1] >= 1
     /\ \A d \in 1..(Len(call.daily) - 1) : call.daily[d] < call.daily[d + 1]) =>
        /\ call.result.error = ""
        /\ call.result.trend_direction = "increasing"
        /\ \A i \in 1..7 :
               call.result.next_7_days[i] > call.daily[Len(call.daily)]

\* C4: every confidence returned by the four anomaly tests and by the
\* forecast, and every risk score returned by predict_route_risk,
\* predict_area_risk and the hotspot computation, lies in [0, 1]
\* (thousandths for the detectors and the predictor, hundredths for the
\* rounded forecast confidence and hotspot score).
C4_ScoresInUnitInterval ==
    /\ (call.op = "predict_route_risk" /\ call.result.ok) =>
           (call.result.v >= 0 /\ call.result.v <= 1000)
    /\ call.op = "predict_area_risk" =>
           (call.result.risk_score >= 0 /\ call.result.risk_score <= 1000)
    /\ call.op \in {"detect_movement_anomaly", "detect_speed_anomaly",
                    "detect_location_deviation", "detect_time_pattern_anomaly"} =>
           (call.result.confidence >= 0 /\ call.result.confidence <= 1000)
    /\ (call.op = "_generate_predictions" /\ call.result.error = "") =>
           (call.result.confidence >= 0 /\ call.result.confidence <= 100)
    /\ (call.op = "_identify_hotspots" /\ call.result.error = "") =>
           \A k \in 1..Len(call.result.hotspots) :
               /\ call.result.hotspots[k].risk_score >= 0
               /\ call.result.hotspots[k].risk_score <= 100

\* A position 11 km from the nearest common route got confidence 1.
C4_Witness ==
    /\ call.op = "detect_location_deviation"
    /\ call.result.is_deviation
    /\ call.result.distance_from_route_km > 100
    /\ call.result.confidence = 1000

\* C11: _extract_movement_features is a pure function of its sample
\* sequence: two calls on the identical ordered sequence return identical
\* feature maps, also when samples carry no createdAt timestamp.
C11_FeaturesArePure ==
    call.op = "_extract_movement_features" => call.first = call.second

\* C12: when the data source reports zero historical incidents in the
\* radius, predict_area_risk returns risk_score 0 (a density term of 0 times
\* the time-of-day multiplier) with risk_level 'low', at every hour.
C12_NoIncidentsNoRisk ==
    (/\ call.op = "predict_area_risk"
     /\ \A s \in DOMAIN call.severity_dist : call.severity_dist[s] = 0) =>
        /\ call.result.risk_score = 0
        /\ call.result.risk_level = "low"

\* C13: a failure while appending the audit record never changes or aborts
\* the calling prediction: predict_route_risk with a trained model and
\* detect_movement_anomaly return, when the audit write fails, the result
\* they return on the same input when it succeeds.
C13_AuditFailureHarmless ==
    /\ (call.op = "predict_route_risk" /\ call.write_fails) =>
           call.result = predict_route_risk(model, call.start_coords,
                             call.end_coords, call.hour, call.pred,
                             call.raises, FALSE)
    /\ (call.op = "detect_movement_anomaly" /\ call.write_fails) =>
           call.result = detect_movement_anomaly(call.locations,
                             Walk(call.historical, call.hsteps, 12900, 20, 0),
                             500, FALSE)

\* The audit write failed after a movement anomaly had been scored.
C13_Witness ==
    /\ call.op = "detect_movement_anomaly"
    /\ call.write_fails
    /\ call.result.is_anomaly
    /\ call.result.confidence > 700

\* C14: no public operation of the core lets an exception escape to its
\* caller: under every input, malformed coordinates included, each call
\* returns a result value (a score, or a result map with its fields).
C14_NoExceptionEscapes ==
    /\ call.op = "predict_route_risk" => call.result.ok
    /\ call.op = "predict_area_risk" =>
           {"risk_score", "risk_level"} \subseteq DOMAIN call.result
    /\ call.op \in {"detect_movement_anomaly", "detect_speed_anomaly",
                    "detect_time_pattern_anomaly"} =>
           {"is_anomaly", "confidence", "reason"} \subseteq DOMAIN call.result
    /\ call.op = "detect_location_deviation" =>
           {"is_deviation", "confidence", "reason"} \subseteq DOMAIN call.result

\* C15: when some input records are malformed (invalid coordinates), the
\* aggregate operations skip only those records and compute their result
\* over the remaining valid records: analyze_trends still reports, with the
\* hotspots of the valid incidents, and movement-feature extraction returns
\* the features of the valid samples.
C15_MalformedRecordsSkipped ==
    /\ call.op = "analyze_trends" =>
           LET valid == SelectSeq(call.incidents, LAMBDA inc : inc.well_formed)
           IN  (Len(valid) >= 10 /\ Len(valid) < Len(call.incidents)) =>
                   /\ call.result.error = ""
                   /\ call.result.hotspots = identify_hotspots(valid)
    /\ call.op = "_extract_movement_features" =>
           LET valid == SelectSeq(call.locations,
                                  LAMBDA loc : ValidPoint(coords(loc)))
           IN  (Len(valid) < Len(call.locations)) =>
                   /\ call.first.ok
                   /\ call.first = extract_movement_features(valid, 500)

\* C16: the recommendations of a trend report are ordered by priority: no
\* recommendation appears before one of strictly higher priority (critical
\* before high before medium).
C16_RecommendationsByPriority ==
    (call.op = "analyze_trends" /\ call.result.error = "") =>
        LET recs == call.result.recommendations
            rank(p) == CASE p = "critical" -> 3 [] p = "high" -> 2
                         [] p = "medium" -> 1 [] OTHER -> 0
        IN  \A i \in 1..Len(recs), j \in 1..Len(recs) :
                i < j => rank(recs[i].priority) >= rank(recs[j].priority)

\* C17: optimize_emergency_response scores each resource as
\* 0.4 distance_score + 0.4 capability_score + 0.2 availability_score and
\* returns min(3, n) of the n candidates: those with the highest
\* priority_score, in non-increasing order of priority_score, so that no
\* omitted resource has a higher score than a returned one.
C17_TopThreeByPriority ==
    (call.op = "optimize_emergency_response" /\ call.result.error = "") =>
        LET resources == call.available_resources
            n == Len(resources)
            returned == call.result.recommended_resources
            score(r) ==
                4 * distance_score(geodesic(<<12900, 77500>>,
                                            <<r.latitude, r.longitude>>).v)
                + 4 * calculate_capability_score(r, call.incident_type)
                + 2 * availability_score(r)
            ids == {returned[k].resource_id : k \in 1..Len(returned)}
        IN  /\ Len(returned) = IF n < 3 THEN n ELSE 3
            /\ Cardinality(ids) = Len(returned)
            /\ \A k \in 1..Len(returned) :
                   \E i \in 1..n :
                       /\ resources[i].id = returned[k].resource_id
                       /\ returned[k].priority_score = score(resources[i])
            /\ \A k \in 1..(Len(returned) - 1) :
                   returned[k].priority_score >= returned[k + 1].priority_score
            /\ \A i \in 1..n :
                   resources[i].id \notin ids =>
                       \A k \in 1..Len(returned) :
                           score(resources[i]) <= returned[k].priority_score

\* Five candidates were ranked and the three best returned, a resource 61 km
\* away among the omitted ones.
C17_Witness ==
    /\ call.op = "optimize_emergency_response"
    /\ call.result.error = ""
    /\ Len(call.available_resources) = 5
    /\ Len(call.result.recommended_resources) = 3
    /\ call.incident_type = "medical"
    /\ call.result.recommended_resources[1].resource_id = 1
    /\ call.result.recommended_resources[1].priority_score = 10000
    /\ \E i \in 1..5 : call.available_resources[i].id = 6
    /\ \A k \in 1..3 : call.result.recommended_resources[k].resource_id # 6

\* C18: with at least 3 current samples and at least 10 historical samples
\* (all with valid coordinates), detect_movement_anomaly goes on to compute
\* z-scores and an anomaly score, rather than to answer that data is
\* insufficient, whenever the history holds at least 2 non-overlapping
\* windows of the current window's length.
C18_TwoHistoricalVectorsSuffice ==
    (/\ call.op = "detect_movement_anomaly"
     /\ Len(call.locations) >= 3
     /\ call.historical >= 10
     /\ \A i \in 1..Len(call.locations) : ValidPoint(coords(call.locations[i]))
     /\ call.historical \div Len(call.locations) >= 2) =>
        call.result.reason \notin {"Insufficient location data",
                                   "Insufficient historical data",
                                   "Insufficient historical patterns"}

\* C19: with 20 or more historical speed samples, detect_speed_anomaly
\* flags an anomaly exactly when current > 1.5 x the 95th percentile, or
\* (current < 0.5 x the 5th percentile and current > 1 km/h), or z > 3; the
\* confidence is min(z/3, 1) when z > 3, 0.8 when only a percentile
\* threshold fired and 0 when nothing fired, so is_anomaly is true exactly
\* when confidence > 0.  (Speeds in half km/h, percentiles times 100.)
C19_PersonalSpeedThresholds ==
    (call.op = "detect_speed_anomaly" /\ call.historical_speeds >= 20) =>
        LET speeds == historical_speeds_of(call.historical_locations)
            n == Len(speeds)
            current == call.current_speed_kmh
            p95 == percentile100(speeds, 95)
            p05 == percentile100(speeds, 5)
            \* n * |current - mean| and n^2 * variance
            dev == Abs(n * current - SumSeq(speeds))
            spread == n * SumSq(speeds) - SumSeq(speeds) * SumSeq(speeds)
            high == 2 * 100 * current > 3 * p95
            low == 2 * 100 * current < p05 /\ current > 2
            z_over_3 == spread > 0 /\ dev * dev > 9 * spread
            r == call.result
        IN  /\ r.is_anomaly <=> (high \/ low \/ z_over_3)
            /\ z_over_3 => r.confidence = 1000
            /\ (~z_over_3 /\ (high \/ low)) => r.confidence = 800
            /\ (~z_over_3 /\ ~high /\ ~low) => r.confidence = 0
            /\ r.is_anomaly <=> r.confidence > 0

\* A speed three times the usual one met a history of 20 equal speeds: only
\* the percentile threshold fired.
C19_Witness ==
    /\ call.op = "detect_speed_anomaly"
    /\ call.historical_speeds = 20
    /\ call.current_speed_kmh = 240
    /\ call.result.is_anomaly
    /\ call.result.confidence = 800

\* C20: detect_time_pattern_anomaly selects the historical samples whose
\* hour is within 2 hours of the current hour on the 24-hour clock (a 23:00
\* sample is selected at hour 0, a 01:00 sample at hour 23), and returns
\* the insufficient-data result exactly when fewer than 5 are selected.
C20_HourFilterOnClock ==
    call.op = "detect_time_pattern_anomaly" =>
        LET history == call.historical_locations
            apart(i) == Abs(history[i].hour - call.current_hour)
            on_clock(i) == IF apart(i) <= 24 - apart(i) THEN apart(i)
                           ELSE 24 - apart(i)
            selected == {i \in 1..Len(history) : on_clock(i) <= 2}
        IN  (call.result.reason
                = "Insufficient historical data for time comparison")
            <=> Cardinality(selected) < 5

\* C21: the incidents that predict_area_risk divides by (area_km2 x 30) are
\* those of the last 30 days only: an incident inside the radius but older
\* than 30 days does not change the area risk score.
C21_OnlyLast30Days ==
    call.op = "predict_area_risk_at" =>
        LET last_30_days == SelectSeq(call.stored,
                                      LAMBDA incident : incident.age <= 30)
        IN  call.result.risk_score
                = predict_area_risk_at(last_30_days, call.latitude,
                                       call.longitude, call.radius,
                                       call.hour).risk_score

\* C22: the historical_incidents_count feature of the route risk feature
\* vector is the severity-weighted sum (critical 1.0, high 0.8, medium 0.5,
\* low 0.2) of the incidents within 2 km of the route midpoint.
C22_WeightedIncidentFeature ==
    (/\ call.op = "prepare_features"
     /\ ValidPoint(call.start_coords) /\ ValidPoint(call.end_coords)) =>
        LET mid_lat == (call.start_coords[1] + call.end_coords[1]) \div 2
            mid_lng == (call.start_coords[2] + call.end_coords[2]) \div 2
            inside == {i \in 1..Len(call.stored) :
                          near(call.stored[i], mid_lat, mid_lng, 2000)}
        IN  call.historical_incidents_count
                = SumOver(inside, [i \in inside |->
                                      severity_weight(call.stored[i].severity)])

\* C23: the hotspots list returned by _identify_hotspots is in
\* non-increasing order of risk_score, holds at most 10 entries which are
\* the highest-scoring clusters, never contains an entry built from
\* noise-labelled points, and the noise points are reported separately in
\* noise_points.
C23_TopTenHotspots ==
    (call.op = "_identify_hotspots" /\ call.result.error = "") =>
        LET hotspots == call.result.hotspots
            labels == call.result.labels
            incident_data == SelectSeq(call.incidents,
                                       LAMBDA incident : incident.located)
            clusters == {labels[i] : i \in 1..Len(labels)} \ {-1}
            listed == {hotspots[k].id : k \in 1..Len(hotspots)}
        IN  /\ \A k \in 1..(Len(hotspots) - 1) :
                   hotspots[k].risk_score >= hotspots[k + 1].risk_score
            /\ Len(hotspots) = Min(10, Cardinality(clusters))
            /\ listed \subseteq clusters
            /\ Cardinality(listed) = Len(hotspots)
            /\ \A c \in clusters \ listed : \A k \in 1..Len(hotspots) :
                   hotspots[k].risk_score
                       >= hotspot(c, incident_data, labels).risk_score
            /\ \A k \in 1..Len(hotspots) :
                   hotspots[k].incident_count
                       = Cardinality({i \in 1..Len(labels) :
                                         labels[i] = hotspots[k].id})
            /\ call.result.noise_points
                   = Cardinality({i \in 1..Len(labels) : labels[i] = -1})

\* Twelve clusters and two noise points were found: ten hotspots are listed,
\* a critical one first, and both low-severity clusters are left out.
C23_Witness ==
    /\ call.op = "_identify_hotspots"
    /\ call.result.error = ""
    /\ call.result.total_hotspots = 12
    /\ Len(call.result.hotspots) = 10
    /\ call.result.hotspots[1].risk_score = 100
    /\ call.result.hotspots[10].risk_score = 20
    /\ call.result.noise_points = 2

\* C29: in _identify_hotspots every incident that has coordinates is counted
\* exactly once: the sum of incident_count over all clusters found
\* (total_hotspots of them) plus noise_points equals the number of incidents
\* with coordinates, and within each hotspot the counts of
\* severity_distribution sum to its incident_count.
C29_EveryIncidentCountedOnce ==
    (call.op = "_identify_hotspots" /\ call.result.error = "") =>
        LET hotspots == call.result.hotspots
            labels == call.result.labels
            incident_data == SelectSeq(call.incidents,
                                       LAMBDA incident : incident.located)
            clusters == {labels[i] : i \in 1..Len(labels)} \ {-1}
            listed == {hotspots[k].id : k \in 1..Len(hotspots)}
            unlisted == clusters \ listed
        IN  /\ call.result.total_hotspots = Cardinality(clusters)
            /\ SumSeq([k \in 1..Len(hotspots) |-> hotspots[k].incident_count])
                 + SumOver(unlisted,
                       [c \in unlisted |->
                           hotspot(c, incident_data, labels).incident_count])
                 + call.result.noise_points
               = Len(incident_data)
            /\ \A k \in 1..Len(hotspots) :
                   LET dist == hotspots[k].severity_distribution
                   IN  SumOver(DOMAIN dist, dist) = hotspots[k].incident_count

\* Of 13 incidents 2 had no coordinates, 10 fell into two hotspots and one
\* was noise; a hotspot holds an incident without a known severity.
C29_Witness ==
    /\ call.op = "_identify_hotspots"
    /\ call.result.error = ""
    /\ Len(call.incidents) = 13
    /\ Len(call.result.labels) = 11
    /\ call.result.total_hotspots = 2
    /\ call.result.noise_points = 1
    /\ \E k \in 1..2 :
           "unknown" \in DOMAIN call.result.hotspots[k].severity_distribution

\* C24: _analyze_severity_trends reports 'insufficient_data' exactly when
\* the incidents fall on fewer than 7 distinct dates; otherwise, with F and L
\* the critical-incident counts of the first and the last 7 dates, it
\* reports increasing when L > 1.5 F, decreasing when L < 0.5 F and stable
\* otherwise (F = 0 and L > 0 is increasing, F = L = 0 is stable).
C24_SeverityTrend ==
    call.op = "_analyze_severity_trends" =>
        LET incidents == call.incidents
            dates == {incidents[i].day : i \in 1..Len(incidents)}
            older(d) == {e \in dates : e < d}
            newer(d) == {e \in dates : e > d}
            critical(D) == Cardinality({i \in 1..Len(incidents) :
                                           /\ incidents[i].severity = "critical"
                                           /\ incidents[i].day \in D})
            F == critical({d \in dates : Cardinality(older(d)) < 7})
            L == critical({d \in dates : Cardinality(newer(d)) < 7})
            trend == call.result.trend
        IN  /\ trend = "insufficient_data" <=> Cardinality(dates) < 7
            /\ Cardinality(dates) >= 7 =>
                   /\ trend = "increasing_severity" <=> 2 * L > 3 * F
                   /\ trend = "decreasing_severity" <=> (2 * L <= 3 * F /\ 2 * L < F)
                   /\ trend = "stable_severity" <=> (2 * L <= 3 * F /\ 2 * L >= F)
                   /\ (F = 0 /\ L > 0) => trend = "increasing_severity"
                   /\ (F = 0 /\ L = 0) => trend = "stable_severity"

\* Over 14 dates two critical incidents in the first week were followed by
\* three in the last: exactly 1.5 times as many, reported stable.
C24_Witness ==
    /\ call.op = "_analyze_severity_trends"
    /\ Len(dates_of(call.incidents)) = 14
    /\ call.first_week_critical = 2
    /\ call.last_week_critical = 3
    /\ call.result.trend = "stable_severity"

\* C30: when the incidents fall on exactly 7 distinct dates the first-week
\* and last-week windows are the same 7 dates, so _analyze_severity_trends
\* reports 'stable_severity' and every growth rate of _analyze_type_trends
\* is 0; with 7 to 13 distinct dates the two windows overlap and the
\* incidents on the shared dates are counted in both.
C30_OverlappingWeeks ==
    LET incidents == call.incidents
        dates == {incidents[i].day : i \in 1..Len(incidents)}
        n == Cardinality(dates)
        older(d) == {e \in dates : e < d}
        newer(d) == {e \in dates : e > d}
        shared == {d \in dates : Cardinality(older(d)) < 7
                                 /\ Cardinality(newer(d)) < 7}
        critical(D) == Cardinality({i \in 1..Len(incidents) :
                                       /\ incidents[i].severity = "critical"
                                       /\ incidents[i].day \in D})
    IN  /\ (call.op = "_analyze_severity_trends" /\ n = 7) =>
               /\ call.first_week_critical = call.last_week_critical
               /\ call.result.trend = "stable_severity"
        /\ (call.op = "_analyze_type_trends" /\ n = 7) =>
               \A t \in DOMAIN call.result.growth_rates :
                   call.result.growth_rates[t] = 0
        /\ (call.op = "_analyze_severity_trends" /\ n >= 7 /\ n <= 13) =>
               /\ Cardinality(shared) = 14 - n
               /\ call.first_week_critical + call.last_week_critical
                      = critical(dates) + critical(shared)

\* On exactly 7 dates with critical incidents on the oldest and the newest
\* one, both weeks counted all of them and the trend was stable.
C30_Witness ==
    /\ call.op = "_analyze_severity_trends"
    /\ Len(dates_of(call.incidents)) = 7
    /\ call.first_week_critical = 3
    /\ call.last_week_critical = 3
    /\ call.result.total_critical = 3
    /\ call.result.trend = "stable_severity"

\* C25: the daily counts that the forecast fits its line to are, for each of
\* the last 14 dates that have incidents, the full number of supplied
\* incidents on that date, however many incidents the window contains in
\* total; with fewer than 7 such dates no forecast is produced.
C25_FullDailyCounts ==
    call.op = "_generate_predictions" =>
        LET daily == call.daily
            dates == {d \in 1..Len(daily) : daily[d] > 0}
            last14 == {d \in dates : Cardinality({e \in dates : e > d}) < 14}
            rank(d) == Cardinality({e \in last14 : e <= d})
        IN  /\ call.result.error = "" =>
                   /\ Len(call.result.counts) = Cardinality(last14)
                   /\ \A d \in last14 : call.result.counts[rank(d)] = daily[d]
            /\ Cardinality(dates) < 7 => call.result.error # ""

\* C26: a call of RiskPredictor.train_model or AnomalyDetector.train_models
\* that returns False, including one that fails part-way after the
\* minimum-sample checks passed, leaves model, scaler and last_trained as
\* before the call; hence, once no training call is running, a non-None
\* model is a fully fitted model paired with the scaler fitted in the same
\* successful run.
C26_FailedTrainingKeepsState ==
    /\ (rt.pc = "returned" /\ rt.ret = "False") => riskFields = rt.before
    /\ (at.pc = "returned" /\ at.ret = "False") => anomFields = at.before
    /\ (rt.pc = "idle" /\ model # None) =>
           (model.fitted /\ scaler.fitted /\ scaler.run = model.run)
    /\ (at.pc = "idle" /\ movement_model # None) =>
           (movement_model.fitted /\ ad_scaler.fitted
            /\ ad_scaler.run = movement_model.run)

\* C27: in the untrained state the heuristic route risk is never below 0.7
\* for any route and any hour (0.4 + 0.3 x a multiplier of at least 1.0), so
\* get_risk_level of a heuristic route score is always 'high' or 'critical'
\* and never 'low' or 'medium'.
C27_HeuristicAtLeastHigh ==
    (call.op = "predict_route_risk" /\ call.model_none /\ call.result.ok) =>
        /\ call.result.v >= 700
        /\ get_risk_level(call.result.v) \in {"high", "critical"}

\* A route of no length at 09:00 scored exactly 0.7, which is 'high'.
C27_Witness ==
    /\ call.op = "predict_route_risk"
    /\ call.model_none
    /\ call.start_coords = call.end_coords
    /\ call.hour = 9
    /\ call.result = Ok(700)
    /\ get_risk_level(call.result.v) = "high"

\* C28: in the result of optimize_emergency_response a resource whose
\* availability flag is false is never labelled 'primary': for every
\* distance and every resource-type and incident-type pair, an unavailable
\* resource gets the recommendation 'secondary'.
C28_UnavailableNeverPrimary ==
    (call.op = "optimize_emergency_response" /\ call.result.error = "") =>
        \A k \in 1..Len(call.result.recommended_resources) :
            \A r \in 1..Len(call.available_resources) :
                (/\ call.available_resources[r].id
                        = call.result.recommended_resources[k].resource_id
                 /\ ~call.available_resources[r].available) =>
                    call.result.recommended_resources[k].recommendation
                        = "secondary"

\* C28 as amended: in the result of optimize_emergency_response a resource
\* whose availability flag is false is never labelled 'primary' when its
\* capability score for the incident type is at most 0.7: for every distance
\* and every such resource-type and incident-type pair, an unavailable
\* resource gets the recommendation 'secondary'.
C28_UnavailableLowCapabilitySecondary ==
    (call.op = "optimize_emergency_response" /\ call.result.error = "") =>
        \A k \in 1..Len(call.result.recommended_resources) :
            \A r \in 1..Len(call.available_resources) :
                (/\ call.available_resources[r].id
                        = call.result.recommended_resources[k].resource_id
                 /\ ~call.available_resources[r].available
                 /\ calculate_capability_score(call.available_resources[r],
                                               call.incident_type) <= 700) =>
                    call.result.recommended_resources[k].recommendation
                        = "secondary"

\* An unavailable rescue team at the place of a fire (capability 0.7) scored
\* exactly 0.7 and was labelled secondary.
C28_Witness ==
    /\ call.op = "optimize_emergency_response"
    /\ call.incident_type = "fire"
    /\ call.result.error = ""
    /\ \E k \in 1..Len(call.result.recommended_resources) :
           /\ call.result.recommended_resources[k].resource_id = 4
           /\ call.result.recommended_resources[k].priority_score = 7000
           /\ call.result.recommended_resources[k].recommendation = "secondary"

=============================================================================
